---------------------------- MODULE Spec2Model ----------------------------
(***************************************************************************)
(* A model of the Practiso archive codec (src/src/index.ts, model.ts):     *)
(* the streaming Parser (sink + result), the binary resource table         *)
(* (parseResources / Composer.source), and the document mapper             *)
(* (toXmlElement / parseXmlArchive / parseXmlFrame / parseXmlDimension).   *)
(*                                                                         *)
(* Conventions.  A JavaScript string is a sequence of character codes, a   *)
(* byte buffer (Blob, Uint8Array) a sequence of numbers in 0..255.  A      *)
(* throwing call returns [ok |-> FALSE, error |-> e]; a returning call     *)
(* returns [ok |-> TRUE, value |-> v].                                     *)
(*                                                                         *)
(* Specifications.  SpecSink: arbitrary chunks written to a Parser's sink. *)
(* Spec: an archive built through the constructors is composed, piped into *)
(* a Parser and read with result().  SpecResult: a document, or a document *)
(* and a resource section, is written to a Parser and read with result().  *)
(***************************************************************************)
EXTENDS Integers, Sequences, FiniteSets, TLC

VARIABLES
    archive,        \* Composer.archive: the PractisoArchive     (index.ts:408)
    composer,       \* position of Composer.source's start()     (index.ts:416)
    source,         \* Composer.source: the ReadableStream       (index.ts:415)
    pending,        \* chunks written to Parser.sink, not yet handled
    inflight,       \* the write handler suspended at `await blob.bytes()`
    written,        \* every chunk handed to Parser.sink, in arrival order
    sinkState,      \* the WritableStream: "writable" | "closed"
    readHead,       \* Parser: 'xml' | 'resource'                (index.ts:63)
    xmlParts,       \* Parser.xmlParts: sequence of blobs        (index.ts:59)
    resourceParts,  \* Parser.resourceParts                      (index.ts:60)
    xmlDoc,         \* the Document handed to parseXmlArchive    (index.ts:104)
    mapped,         \* what parseXmlArchive returned or threw
    res,            \* the frame of parseResources               (index.ts:248)
    result,         \* what Parser.result() returned or threw    (index.ts:90)
    invoked,        \* the producers invoked so far, by name, in order
    iter,           \* an asynchronous iteration over archive.resources
    calls           \* the calls made on model objects, each with its return

parserVars == <<readHead, xmlParts, resourceParts>>

sinkVars == <<pending, inflight, written, sinkState>>

composerVars == <<archive, composer, source>>

mapperVars == <<xmlDoc, mapped>>

modelVars == <<invoked, iter, calls>>

vars == <<archive, composer, source, pending, inflight, written, sinkState,
          readHead, xmlParts, resourceParts, xmlDoc, mapped, res, result,
          invoked, iter, calls>>

-----------------------------------------------------------------------------
(* Sequences and buffers *)

Max(a, b) == IF a > b THEN a ELSE b

Min(a, b) == IF a < b THEN a ELSE b

RECURSIVE Concat(_)
\* new Blob(parts): the parts' bytes, one after the other (joined by
\* halves, which keeps the evaluation shallow on long sequences).
Concat(parts) ==
    IF Len(parts) = 0 THEN <<>>
    ELSE IF Len(parts) = 1 THEN parts[1]
    ELSE LET half == Len(parts) \div 2
         IN  Concat(SubSeq(parts, 1, half))
                 \o Concat(SubSeq(parts, half + 1, Len(parts)))

\* TypedArray.prototype.indexOf(value, fromIndex), 0-based, -1 when absent.
\* A negative fromIndex counts from the end.
IndexOf(buffer, value, fromIndex) ==
    LET n     == Len(buffer)
        from  == IF fromIndex < 0 THEN Max(n + fromIndex, 0) ELSE fromIndex
        found == {k \in from..(n - 1) : buffer[k + 1] = value}
    IN  IF found = {} THEN -1
        ELSE CHOOSE k \in found : \A j \in found : k <= j

\* Blob.slice / TypedArray.slice(start, end), 0-based, end exclusive;
\* negative positions count from the end and both are clamped.
Slice(buffer, start, end) ==
    LET n  == Len(buffer)
        s  == IF start < 0 THEN Max(n + start, 0) ELSE Min(start, n)
        e  == IF end < 0 THEN Max(n + end, 0) ELSE Min(end, n)
    IN  IF e <= s THEN <<>> ELSE SubSeq(buffer, s + 1, e)

\* blob.slice(start): to the end of the blob.
SliceFrom(buffer, start) == Slice(buffer, start, Len(buffer))

-----------------------------------------------------------------------------
(* Text encoding *)

\* The UTF-8 bytes of one character: one, two or three.
EncodeChar(c) ==
    IF c < 128 THEN <<c>>
    ELSE IF c < 2048 THEN <<192 + (c \div 64), 128 + (c % 64)>>
    ELSE <<224 + (c \div 4096), 128 + ((c \div 64) % 64), 128 + (c % 64)>>

\* TextEncoder.encode(str).
Utf8Encode(str) == Concat([k \in 1..Len(str) |-> EncodeChar(str[k])])

IsContinuation(bytes, k) ==
    k >= 1 /\ k <= Len(bytes) /\ bytes[k] \in 128..191

\* A lead byte at k followed by all its continuation bytes.
IsLead2(bytes, k) ==
    k >= 1 /\ k <= Len(bytes) /\ bytes[k] \in 194..223
        /\ IsContinuation(bytes, k + 1)

IsLead3(bytes, k) ==
    k >= 1 /\ k <= Len(bytes) /\ bytes[k] \in 224..239
        /\ IsContinuation(bytes, k + 1) /\ IsContinuation(bytes, k + 2)

\* What the byte at k contributes to the decoded text: nothing when it
\* continues a sequence, the character when it starts one, U+FFFD when it
\* starts no well-formed sequence.
DecodeAt(bytes, k) ==
    LET b == bytes[k]
    IN  IF IsContinuation(bytes, k)
           /\ (IsLead2(bytes, k - 1) \/ IsLead3(bytes, k - 1)
                  \/ IsLead3(bytes, k - 2))
        THEN <<>>
        ELSE IF b < 128 THEN <<b>>
        ELSE IF IsLead2(bytes, k) THEN <<(b - 192) * 64 + (bytes[k + 1] - 128)>>
        ELSE IF IsLead3(bytes, k)
        THEN <<(b - 224) * 4096 + (bytes[k + 1] - 128) * 64
                  + (bytes[k + 2] - 128)>>
        ELSE <<65533>>

\* U+FEFF, the byte order mark, and its three bytes.
ByteOrderMark == <<65279>>

\* TextDecoder.decode(bytes) with the decoder's defaults, and Blob.text():
\* a byte order mark that opens the bytes is dropped, the rest is decoded.
Utf8Decode(bytes) ==
    LET mark == EncodeChar(ByteOrderMark[1])
        body == IF Len(bytes) >= 3 /\ SubSeq(bytes, 1, 3) = mark
                THEN SubSeq(bytes, 4, Len(bytes)) ELSE bytes
    IN  Concat([k \in 1..Len(body) |-> DecodeAt(body, k)])

-----------------------------------------------------------------------------
(* Numbers, timestamps and their text *)

\* A JavaScript number: NaN, or a value.  Widths, heights, priorities and
\* time values count units; an intensity counts tenths (5 is 0.5).
NaN == [nan |-> TRUE, value |-> 0]

Num(n) == [nan |-> FALSE, value |-> n]

\* null / undefined, and a present value, for a nullable field.
Null == <<>>

Some(v) == <<v>>

\* `x ? a : b` on a nullable string: null, undefined and '' are falsy.
Truthy(opt) == opt # Null /\ opt[1] # <<>>

IsDigit(c) == c \in 48..57

IsSpace(c) == c \in {9, 10, 13, 32}

RECURSIVE Digits(_)
\* The decimal digits of a natural number.
Digits(n) == IF n < 10 THEN <<48 + n>> ELSE Digits(n \div 10) \o <<48 + (n % 10)>>

\* Number.prototype.toString() of an integer.
IntToString(n) == IF n < 0 THEN <<45>> \o Digits(0 - n) ELSE Digits(n)

\* Number.prototype.toString() of an intensity kept in tenths.
TenthsToString(t) ==
    LET a == IF t < 0 THEN 0 - t ELSE t
        sign == IF t < 0 THEN <<45>> ELSE <<>>
    IN  sign \o Digits(a \div 10)
             \o (IF a % 10 = 0 THEN <<>> ELSE <<46, 48 + (a % 10)>>)

RECURSIVE TrimStart(_)
TrimStart(str) ==
    IF str # <<>> /\ IsSpace(Head(str)) THEN TrimStart(Tail(str)) ELSE str

RECURSIVE TrimEnd(_)
TrimEnd(str) ==
    IF str # <<>> /\ IsSpace(str[Len(str)])
    THEN TrimEnd(SubSeq(str, 1, Len(str) - 1)) ELSE str

\* String.prototype.trim().
Trim(str) == TrimEnd(TrimStart(str))

RECURSIVE DigitPrefix(_)
\* The longest prefix of decimal digits.
DigitPrefix(str) ==
    IF str # <<>> /\ IsDigit(Head(str))
    THEN <<Head(str)>> \o DigitPrefix(Tail(str)) ELSE <<>>

RECURSIVE DigitsValue(_)
DigitsValue(ds) ==
    IF ds = <<>> THEN 0
    ELSE DigitsValue(SubSeq(ds, 1, Len(ds) - 1)) * 10 + (ds[Len(ds)] - 48)

\* parseInt(str): leading white space, a sign, then the leading decimal
\* digits; NaN when there is none.  Whatever follows them is ignored.
ParseInt(str) ==
    LET t    == TrimStart(str)
        neg  == t # <<>> /\ Head(t) = 45
        body == IF t # <<>> /\ Head(t) \in {43, 45} THEN Tail(t) ELSE t
        ds   == DigitPrefix(body)
    IN  IF ds = <<>> THEN NaN
        ELSE Num(IF neg THEN 0 - DigitsValue(ds) ELSE DigitsValue(ds))

\* parseFloat(str) in tenths: as parseInt, with a fraction of one digit.
ParseFloat(str) ==
    LET t    == TrimStart(str)
        neg  == t # <<>> /\ Head(t) = 45
        body == IF t # <<>> /\ Head(t) \in {43, 45} THEN Tail(t) ELSE t
        ds   == DigitPrefix(body)
        rest == SubSeq(body, Len(ds) + 1, Len(body))
        frac == IF rest # <<>> /\ Head(rest) = 46
                THEN DigitPrefix(Tail(rest)) ELSE <<>>
        abs  == DigitsValue(ds) * 10 + (IF frac = <<>> THEN 0 ELSE frac[1] - 48)
    IN  IF ds = <<>> /\ frac = <<>> THEN NaN
        ELSE Num(IF neg THEN 0 - abs ELSE abs)

\* Date.prototype.toISOString().  The ISO-8601 text of the time value t is
\* abridged to "T<t>Z": a fixed frame around the digits of t.
ToISOString(date) == <<84>> \o Digits(date.time.value) \o <<90>>

\* Date.parse(str): the time value of a text in the format above, NaN for
\* any other text.
DateParse(str) ==
    LET n  == Len(str)
        ds == SubSeq(str, 2, n - 1)
    IN  IF /\ n >= 3
           /\ str[1] = 84
           /\ str[n] = 90
           /\ DigitPrefix(ds) = ds
        THEN Num(DigitsValue(ds)) ELSE NaN

\* new Date(value): a Date with that time value (NaN: an Invalid Date).
Date(time) == [time |-> time]

-----------------------------------------------------------------------------
(* The generic document tree (domhandler) and its markup *)

\* A node: an element ("tag"), a text node, a comment, a directive
\* (<?xml ...?>, <!DOCTYPE ...>) or a CDATA section.  An element's attribs
\* is a sequence of [key, value] in document order, every key once.
Element(name, attribs, children) ==
    [type |-> "tag", name |-> name, attribs |-> attribs, data |-> <<>>,
     children |-> children]

XmlText(data) ==
    [type |-> "text", name |-> "", attribs |-> <<>>, data |-> data,
     children |-> <<>>]

Comment(data) ==
    [type |-> "comment", name |-> "", attribs |-> <<>>, data |-> data,
     children |-> <<>>]

Directive(data) ==
    [type |-> "directive", name |-> "", attribs |-> <<>>, data |-> data,
     children |-> <<>>]

\* DomHandler.root: the Document above the top-level nodes.
Document(children) ==
    [type |-> "root", name |-> "", attribs |-> <<>>, data |-> <<>>,
     children |-> children]

IsElement(node) == node.type = "tag"

\* isText(node) of domhandler.
IsText(node) == node.type = "text"

\* isDirective(node) of domhandler.
IsDirective(node) == node.type = "directive"

KV(key, value) == [key |-> key, value |-> value]

\* element.attribs[key]: undefined (Null) when the attribute is absent.
Attr(element, key) ==
    LET at == {k \in 1..Len(element.attribs) : element.attribs[k].key = key}
    IN  IF at = {} THEN Null ELSE Some(element.attribs[CHOOSE k \in at : TRUE].value)

\* The tag and attribute names of the format, and their spelling.
Names ==
    {"archive", "quiz", "frames", "text", "image", "options", "item",
     "dimension", "name", "creation", "modification", "src", "width",
     "height", "alt", "priority", "key", "video"}

NameChars(name) ==
    CASE
         name = "archive" -> <<97, 114, 99, 104, 105, 118, 101>>
      [] name = "quiz" -> <<113, 117, 105, 122>>
      [] name = "frames" -> <<102, 114, 97, 109, 101, 115>>
      [] name = "text" -> <<116, 101, 120, 116>>
      [] name = "image" -> <<105, 109, 97, 103, 101>>
      [] name = "options" -> <<111, 112, 116, 105, 111, 110, 115>>
      [] name = "item" -> <<105, 116, 101, 109>>
      [] name = "dimension" -> <<100, 105, 109, 101, 110, 115, 105, 111, 110>>
      [] name = "name" -> <<110, 97, 109, 101>>
      [] name = "creation" -> <<99, 114, 101, 97, 116, 105, 111, 110>>
      [] name = "modification" -> <<109, 111, 100, 105, 102, 105, 99, 97, 116, 105, 111, 110>>
      [] name = "src" -> <<115, 114, 99>>
      [] name = "width" -> <<119, 105, 100, 116, 104>>
      [] name = "height" -> <<104, 101, 105, 103, 104, 116>>
      [] name = "alt" -> <<97, 108, 116>>
      [] name = "priority" -> <<112, 114, 105, 111, 114, 105, 116, 121>>
      [] name = "key" -> <<107, 101, 121>>
      [] name = "video" -> <<118, 105, 100, 101, 111>>
      [] OTHER -> <<63>>

\* The name spelled by chars; "?" for a name outside the vocabulary.
NameOf(chars) ==
    IF \E n \in Names : NameChars(n) = chars
    THEN CHOOSE n \in Names : NameChars(n) = chars
    ELSE "?"

\* 'true', the value of the key attribute.
TrueChars == <<116, 114, 117, 101>>

\* The characters markup reserves, and the entity each is written as.
Entities ==
    {[char |-> 38, text |-> <<38, 97, 109, 112, 59>>],
     [char |-> 60, text |-> <<38, 108, 116, 59>>],
     [char |-> 62, text |-> <<38, 103, 116, 59>>],
     [char |-> 34, text |-> <<38, 113, 117, 111, 116, 59>>],
     [char |-> 39, text |-> <<38, 97, 112, 111, 115, 59>>]}

RECURSIVE EncodeEntities(_)
\* dom-serializer with encodeEntities: true.
EncodeEntities(str) ==
    IF str = <<>> THEN <<>>
    ELSE LET c == Head(str)
         IN  (IF \E e \in Entities : e.char = c
              THEN (CHOOSE e \in Entities : e.char = c).text
              ELSE <<c>>) \o EncodeEntities(Tail(str))

StartsWith(str, prefix) ==
    Len(str) >= Len(prefix) /\ SubSeq(str, 1, Len(prefix)) = prefix

RECURSIVE DecodeEntities(_)
\* htmlparser2 with decodeEntities (its default).
DecodeEntities(str) ==
    IF str = <<>> THEN <<>>
    ELSE IF \E e \in Entities : StartsWith(str, e.text)
    THEN LET e == CHOOSE x \in Entities : StartsWith(str, x.text)
         IN  <<e.char>> \o DecodeEntities(SubSeq(str, Len(e.text) + 1, Len(str)))
    ELSE <<Head(str)>> \o DecodeEntities(Tail(str))

RECURSIVE RenderAttribs(_)
\* An attribute is written ` key="value"`, an empty one ` key`.
RenderAttribs(attribs) ==
    IF attribs = <<>> THEN <<>>
    ELSE LET a == Head(attribs)
         IN  <<32>> \o NameChars(a.key)
                 \o (IF a.value = <<>> THEN <<>>
                     ELSE <<61, 34>> \o EncodeEntities(a.value) \o <<34>>)
                 \o RenderAttribs(Tail(attribs))

RECURSIVE Render(_)
RECURSIVE RenderAll(_)
\* render(node, {encodeEntities: true, selfClosingTags: false}) of
\* dom-serializer (index.ts:417-420): <name attribs>children</name>, a
\* comment <!--data-->, a directive <data>.
Render(node) ==
    IF node.type = "text" THEN EncodeEntities(node.data)
    ELSE IF node.type = "comment"
    THEN <<60, 33, 45, 45>> \o node.data \o <<45, 45, 62>>
    ELSE IF node.type = "directive" THEN <<60>> \o node.data \o <<62>>
    ELSE <<60>> \o NameChars(node.name) \o RenderAttribs(node.attribs) \o <<62>>
            \o RenderAll(node.children)
            \o <<60, 47>> \o NameChars(node.name) \o <<62>>

RenderAll(nodes) ==
    IF nodes = <<>> THEN <<>> ELSE Render(Head(nodes)) \o RenderAll(Tail(nodes))

\* The first position at or after i holding one of the characters; one past
\* the end when there is none.
Find(str, i, chars) ==
    LET at == {k \in i..Len(str) : str[k] \in chars}
    IN  IF at = {} THEN Len(str) + 1 ELSE CHOOSE k \in at : \A j \in at : k <= j

RECURSIVE ParseAttribs(_, _)
\* The attributes of an open tag from position i, to just after its '>'.
ParseAttribs(str, i) ==
    IF i > Len(str) THEN [attribs |-> <<>>, next |-> i]
    ELSE IF str[i] = 62 THEN [attribs |-> <<>>, next |-> i + 1]
    ELSE IF str[i] = 32 THEN ParseAttribs(str, i + 1)
    ELSE LET keyEnd == Find(str, i, {61, 32, 62})
             key    == NameOf(SubSeq(str, i, keyEnd - 1))
             quoted == keyEnd + 1 <= Len(str) /\ str[keyEnd] = 61
                          /\ str[keyEnd + 1] = 34
             valEnd == IF quoted THEN Find(str, keyEnd + 2, {34}) ELSE keyEnd
             value  == IF quoted
                       THEN DecodeEntities(SubSeq(str, keyEnd + 2, valEnd - 1))
                       ELSE <<>>
             rest   == ParseAttribs(str, IF quoted THEN valEnd + 1 ELSE keyEnd)
         IN  [attribs |-> <<KV(key, value)>> \o rest.attribs, next |-> rest.next]

RECURSIVE ParseNodes(_, _)
\* The nodes from position i up to the closing tag of the enclosing element
\* (or the end of the text).  Text between tags becomes one text node; no
\* text node is made of no characters.  <!--...--> becomes a comment, any
\* other <!...> or <?...> a directive.
ParseNodes(str, i) ==
    IF i > Len(str) THEN [nodes |-> <<>>, next |-> i]
    ELSE IF str[i] = 60 /\ i < Len(str) /\ str[i + 1] = 47
    THEN [nodes |-> <<>>, next |-> Find(str, i, {62}) + 1]
    ELSE IF StartsWith(SubSeq(str, i, Len(str)), <<60, 33, 45, 45>>)
    THEN LET dashes == {k \in (i + 4)..(Len(str) - 2) :
                           SubSeq(str, k, k + 2) = <<45, 45, 62>>}
             end    == IF dashes = {} THEN Len(str) + 1
                       ELSE CHOOSE k \in dashes : \A j \in dashes : k <= j
             rest   == ParseNodes(str, end + 3)
         IN  [nodes |-> <<Comment(SubSeq(str, i + 4, end - 1))>> \o rest.nodes,
              next |-> rest.next]
    ELSE IF str[i] = 60 /\ i < Len(str) /\ str[i + 1] \in {33, 63}
    THEN LET end  == Find(str, i, {62})
             rest == ParseNodes(str, end + 1)
         IN  [nodes |-> <<Directive(SubSeq(str, i + 1, end - 1))>> \o rest.nodes,
              next |-> rest.next]
    ELSE IF str[i] = 60
    THEN LET nameEnd  == Find(str, i, {32, 62})
             name     == NameOf(SubSeq(str, i + 1, nameEnd - 1))
             open     == ParseAttribs(str, nameEnd)
             inner    == ParseNodes(str, open.next)
             rest     == ParseNodes(str, inner.next)
         IN  [nodes |-> <<Element(name, open.attribs, inner.nodes)>> \o rest.nodes,
              next |-> rest.next]
    ELSE LET textEnd == Find(str, i, {60})
             rest    == ParseNodes(str, textEnd)
         IN  [nodes |-> <<XmlText(DecodeEntities(SubSeq(str, i, textEnd - 1)))>>
                           \o rest.nodes,
              next |-> rest.next]

\* index.ts:93-95: the text is fed to htmlparser2, whose DomHandler builds
\* the Document.
XmlParse(xmlContent) == Document(ParseNodes(xmlContent, 1).nodes)

-----------------------------------------------------------------------------
(* The data model (model.ts) *)

\* Archive.Text (model.ts:166-180).
Text(content) == [type |-> "Text", content |-> content]

\* Archive.Image (model.ts:182-212); altText is a string or null.
Image(filename, width, height, altText) ==
    [type |-> "Image", filename |-> filename, width |-> width,
     height |-> height, altText |-> altText]

\* Archive.Options (model.ts:214-230); name is a string or null.
Options(name, content) == [type |-> "Options", name |-> name, content |-> content]

\* Archive.Option (model.ts:232-259).
Option(content, isKey, priority) ==
    [isKey |-> isKey, priority |-> priority, content |-> content]

\* The object DimensionArchive's constructor leaves (model.ts:272-273).
Dimension(name, intensity) == [name |-> name, intensity |-> intensity]

\* new DimensionArchive(name, intensity) (model.ts:266-274): a RangeError
\* outside [0, 1], the comparisons being false for NaN.
DimensionArchive(name, intensity) ==
    IF ~intensity.nan /\ (intensity.value < 0 \/ intensity.value > 10)
    THEN [ok |-> FALSE,
          error |-> [kind |-> "RangeError",
                     message |-> "an intensity is out of bound",
                     cause |-> Null, location |-> <<>>]]
    ELSE [ok |-> TRUE, value |-> Dimension(name, intensity)]

\* QuizArchive (model.ts:5-27); modificationTime is a Date or undefined.
QuizArchive(name, creationTime, modificationTime, frames, dimensions) ==
    [name |-> name, creationTime |-> creationTime,
     modificationTime |-> modificationTime, frames |-> frames,
     dimensions |-> dimensions]

\* PractisoArchive (model.ts:50-65); resources is the ResourceArchive's
\* insertion-ordered map, a sequence of [name, producer].
PractisoArchive(content, creationTime, resources) ==
    [creationTime |-> creationTime, content |-> content, resources |-> resources]

\* The producer ResourceArchive.put stores for bytes given as a Blob
\* (model.ts:133): `async () => reduce(futureBytes)`.
BlobProducer(bytes) == [kind |-> "blob", bytes |-> bytes]

RECURSIVE FrameToXml(_)
\* toXmlElement of Text, Image, Options and Option (model.ts:177-258).
FrameToXml(frame) ==
    CASE frame.type = "Text" ->
           Element("text", <<>>, <<XmlText(frame.content)>>)
      [] frame.type = "Image" ->
           Element("image",
                   <<KV("src", frame.filename),
                     KV("width", IntToString(frame.width.value)),
                     KV("height", IntToString(frame.height.value))>>
                     \o (IF Truthy(frame.altText)
                         THEN <<KV("alt", frame.altText[1])>> ELSE <<>>),
                   <<>>)
      [] frame.type = "Options" ->
           Element("options",
                   IF Truthy(frame.name) THEN <<KV("name", frame.name[1])>>
                   ELSE <<>>,
                   [k \in 1..Len(frame.content) |->
                       Element("item",
                               <<KV("priority",
                                    IntToString(frame.content[k].priority.value))>>
                                 \o (IF frame.content[k].isKey
                                     THEN <<KV("key", TrueChars)>> ELSE <<>>),
                               <<FrameToXml(frame.content[k].content)>>)])

\* DimensionArchive.toXmlElement (model.ts:276-280).
DimensionToXml(d) ==
    Element("dimension", <<KV("name", d.name)>>,
            <<XmlText(TenthsToString(d.intensity.value))>>)

\* QuizArchive.toXmlElement (model.ts:28-47).
QuizToXml(quiz) ==
    Element("quiz",
            <<KV("name", quiz.name),
              KV("creation", ToISOString(quiz.creationTime))>>
              \o (IF quiz.modificationTime # Null
                  THEN <<KV("modification",
                            ToISOString(quiz.modificationTime[1]))>>
                  ELSE <<>>),
            <<Element("frames", <<>>,
                      [k \in 1..Len(quiz.frames) |-> FrameToXml(quiz.frames[k])])>>
              \o [k \in 1..Len(quiz.dimensions) |->
                     DimensionToXml(quiz.dimensions[k])])

\* PractisoArchive.toXmlElement (model.ts:67-77).
ArchiveToXml(a) ==
    Element("archive", <<KV("creation", ToISOString(a.creationTime))>>,
            [k \in 1..Len(a.content) |-> QuizToXml(a.content[k])])

-----------------------------------------------------------------------------
(* Errors *)

Ok(value) == [ok |-> TRUE, value |-> value]

Throw(error) == [ok |-> FALSE, error |-> error]

\* The producer put stores for a function (model.ts:131) and for a Promise
\* (model.ts:129): invoking it settles as the function's promise, or the
\* given promise, does.
SupplierProducer(settles) == [kind |-> "supplier", settles |-> settles]

PromiseProducer(settles) == [kind |-> "promise", settles |-> settles]

\* The producer the constructor stores for a ReadableStream
\* (model.ts:98-99), `() => readAllFromStream(value)`: the chunks the
\* stream delivers, and whether a reader has locked it.
StreamProducer(chunks) ==
    [kind |-> "stream", chunks |-> chunks, locked |-> FALSE]

RECURSIVE Unshifted(_, _)
\* The loop of readAllFromStream (helper.ts:4-8): each chunk read is put in
\* front of the parts read before it.
Unshifted(chunks, parts) ==
    IF chunks = <<>> THEN parts
    ELSE Unshifted(Tail(chunks), <<Head(chunks)>> \o parts)

\* readAllFromStream(stream) on an unlocked stream (helper.ts:1-10).
ReadAllFromStream(chunks) == Concat(Unshifted(chunks, <<>>))

\* What stream.getReader() throws on a locked stream (helper.ts:3).
LockedStream ==
    [kind |-> "TypeError", message |-> "ReadableStream is locked",
     cause |-> Null, location |-> <<>>]

\* What the promise a producer returns settles to: Ok(bytes) when it
\* resolves, Throw(e) when it rejects.
Invoke(producer) ==
    CASE producer.kind = "blob" -> Ok(producer.bytes)
      [] producer.kind = "stream" ->
           IF producer.locked THEN Throw(LockedStream)
           ELSE Ok(ReadAllFromStream(producer.chunks))
      [] OTHER -> producer.settles

\* The producer once it has been invoked: the reader readAllFromStream
\* took (helper.ts:3) is never released, so the stream stays locked.
Invoked(producer) ==
    IF producer.kind = "stream" THEN [producer EXCEPT !.locked = TRUE]
    ELSE producer

\* The names and what is put under them.
PutNames == {<<114>>, <<233>>}

\* The error a rejecting supplier rejects with.
Rejection ==
    [kind |-> "Error", message |-> "E", cause |-> Null, location |-> <<>>]

RECURSIVE Join(_)
\* location.join('/').
Join(location) ==
    IF Len(location) = 1 THEN location[1]
    ELSE location[1] \o "/" \o Join(Tail(location))

\* new ArchiveParseError(message, cause, ...location) (model.ts:283-302);
\* the location segments are already strings.  The values the source
\* splices into a message (a node's text, an attribute's value) are left
\* out of the message.
ArchiveParseError(message, cause, location) ==
    [kind |-> "ArchiveParseError",
     message |-> IF location # <<>> THEN message \o " at " \o Join(location)
                 ELSE message,
     cause |-> cause,
     location |-> location]

\* What `isText(undefined)` throws: domhandler reads node.type.
TypeError ==
    [kind |-> "TypeError", message |-> "cannot read properties of undefined",
     cause |-> Null, location |-> <<>>]

\* `<${name}>` and `<${name}#${index}>`.
Tag(name) == "<" \o name \o ">"

TagAt(name, index) == "<" \o name \o "#" \o ToString(index) \o ">"

-----------------------------------------------------------------------------
(* The document mapper, parse direction (index.ts:22-55, 104-246, 268-405) *)

\* A call's result r handed on: `rest` is the result of the calls that
\* follow it in a map.  A throw ends the map; otherwise r's value is put in
\* front of theirs.
Cons(value, rest) == IF rest.ok THEN Ok(<<value>> \o rest.value) ELSE rest

RECURSIVE AllowFrom(_, _)
\* The loop of allowElementOrEmptyText from the JavaScript index `index`.
AllowFrom(value, index) ==
    IF index >= Len(value) THEN Ok(<<>>)
    ELSE LET node == value[index + 1]
         IN  IF IsElement(node)
             THEN Cons(node, AllowFrom(value, index + 1))
             ELSE IF IsText(node)
             THEN IF Len(Trim(node.data)) > 0
                  THEN Throw(ArchiveParseError("unexpected text", Null,
                                               <<ToString(index)>>))
                  ELSE AllowFrom(value, index + 1)
             ELSE Throw(ArchiveParseError("unexpected element " \o node.type,
                                          Null, <<ToString(index)>>))

\* allowElementOrEmptyText(value) (index.ts:22-46).
AllowElementOrEmptyText(value) == AllowFrom(value, 0)

\* firstElementChild(parent) (index.ts:48-55): null when there is none.
FirstElementChild(parent) ==
    LET at == {k \in 1..Len(parent.children) : IsElement(parent.children[k])}
    IN  IF at = {} THEN Null
        ELSE Some(parent.children[CHOOSE k \in at : \A j \in at : k <= j])

\* quiz.children.filter((c) => c instanceof Element && c.tagName === name)
\* (index.ts:170-174, 191-196).
ElementsNamed(children, name) ==
    LET Keep(c) == IsElement(c) /\ c.name = name
    IN  SelectSeq(children, Keep)

\* Mutant of WrapRangeError: the RangeError of the constructor is let
\* through as it is.
WrapRangeErrorBare(made) == made

\* index.ts:397-404: the RangeError of the model's constructor is wrapped,
\* with no location.
WrapRangeError(made) ==
    IF made.ok THEN made
    ELSE Throw(ArchiveParseError(made.error.message, Some(made.error), <<>>))

\* index.ts:393-404, once the intensity is read.
DimensionOf(name, intensity) ==
    IF intensity.nan
    THEN Throw(ArchiveParseError("unexpected intensity", Null, <<>>))
    ELSE WrapRangeError(DimensionArchive(name, intensity))

\* parseXmlDimension(xmlEle) (index.ts:381-405).
ParseXmlDimension(xmlEle) ==
    LET name == Attr(xmlEle, "name")
    IN  IF ~Truthy(name)
        THEN Throw(ArchiveParseError("missing name attribute", Null, <<>>))
        ELSE IF Len(xmlEle.children) > 1
        THEN Throw(ArchiveParseError("unexpected manifold dimension", Null, <<>>))
        ELSE IF Len(xmlEle.children) = 0
        THEN Throw(TypeError)
        ELSE IF ~IsText(xmlEle.children[1])
        THEN Throw(ArchiveParseError("unexpected manifold dimension", Null, <<>>))
        ELSE DimensionOf(name[1], ParseFloat(xmlEle.children[1].data))

\* catch (e) { if (e instanceof ArchiveParseError) throw new
\* ArchiveParseError(e.message, cause, ...location); throw e }: r is what
\* the try block returned or threw.
Rewrap(r, cause, location) ==
    IF r.ok \/ r.error.kind # "ArchiveParseError" THEN r
    ELSE Throw(ArchiveParseError(r.error.message, cause, location))

\* The location an error carries; none for a result that is no error.
LocationOf(r) == IF r.ok THEN <<>> ELSE r.error.location

\* The error itself as the cause of its re-wrap.
CauseOf(r) == IF r.ok THEN Null ELSE Some(r.error)

\* index.ts:353-367: the inner frame's error is wrapped with the item's
\* place in front of its own location.
RewrapItem(r, index) ==
    Rewrap(r, CauseOf(r),
           <<Tag("options"), TagAt("item", index)>> \o LocationOf(r))

\* index.ts:219-233: the frame's error is wrapped with the frame's place;
\* the location the error carried is not passed on.
RewrapFrame(r, index, fIndex) ==
    Rewrap(r, CauseOf(r),
           <<Tag("archive"), TagAt("quiz", index), Tag("frames"),
             ToString(fIndex)>>)

\* index.ts:198-213: the dimension's error is wrapped with the dimension's
\* place in front of its own location.
RewrapDimension(r, index, dIndex) ==
    Rewrap(r, CauseOf(r),
           <<Tag("archive"), TagAt("quiz", index), TagAt("dimension", dIndex)>>
               \o LocationOf(r))

\* A map's callback result r, then the results of the later elements.
Then(r, rest) == IF r.ok THEN Cons(r.value, rest) ELSE r

\* Mutant: the error of the default case does not say which tag it met.
UnexpectedFrameTypeUnnamed(xmlEle) ==
    Throw(ArchiveParseError("unexpected frame type", Null, <<>>))

\* The default case of parseXmlFrame (index.ts:372-377).
UnexpectedFrameType(xmlEle) ==
    Throw(ArchiveParseError("unexpected frame type", Null,
                            <<Tag(xmlEle.name)>>))

RECURSIVE ParseXmlFrame(_)
RECURSIVE ParseItems(_, _)

\* index.ts:353-368: the item's inner frame, wrapped in an Option.
OptionOf(innerFrame, isKey, priority) ==
    IF innerFrame.ok
    THEN Ok(Option(innerFrame.value, isKey, priority))
    ELSE innerFrame

\* The callback mapped over the item elements of an options element for
\* the one at JavaScript index `index` (index.ts:314-369).
ParseItem(itemEle, index) ==
    LET innerEle    == FirstElementChild(itemEle)
        priorityStr == Attr(itemEle, "priority")
        isKey       == Attr(itemEle, "key") = Some(TrueChars)
        at          == <<Tag("options"), TagAt(itemEle.name, index)>>
    IN  IF itemEle.name # "item"
        THEN Throw(ArchiveParseError("unexpected node, only <item> expected",
                       Null,
                       <<Tag("options"), ToString(index), Tag(itemEle.name)>>))
        ELSE IF innerEle = Null
        THEN Throw(ArchiveParseError("empty item", Null, at))
        ELSE IF ~Truthy(priorityStr)
        THEN Throw(ArchiveParseError("missing priority attribute", Null, at))
        ELSE IF ParseInt(priorityStr[1]).nan
        THEN Throw(ArchiveParseError("unexpected priority value", Null, at))
        ELSE OptionOf(RewrapItem(ParseXmlFrame(innerEle[1]), index),
                      isKey, ParseInt(priorityStr[1]))

\* .map over the item elements from index on; the first throw ends it.
ParseItems(itemEles, index) ==
    IF index >= Len(itemEles) THEN Ok(<<>>)
    ELSE Then(ParseItem(itemEles[index + 1], index),
              ParseItems(itemEles, index + 1))

\* index.ts:312-371: the items of the filtered children, then the Options.
OptionsOf(name, itemEles) ==
    LET Made(items) == IF items.ok THEN Ok(Options(name, items.value)) ELSE items
    IN  IF itemEles.ok THEN Made(ParseItems(itemEles.value, 0)) ELSE itemEles

\* parseXmlFrame(xmlEle) (index.ts:268-379).
ParseXmlFrame(xmlEle) ==
    CASE xmlEle.name = "text" ->
           IF Len(xmlEle.children) > 1
           THEN Throw(ArchiveParseError("unexpected manifold tag content",
                                        Null, <<Tag("text")>>))
           ELSE IF Len(xmlEle.children) = 0
           THEN Throw(TypeError)
           ELSE IF ~IsText(xmlEle.children[1])
           THEN Throw(ArchiveParseError("unexpected manifold tag content",
                                        Null, <<Tag("text")>>))
           ELSE Ok(Text(xmlEle.children[1].data))
      [] xmlEle.name = "image" ->
           LET width  == Attr(xmlEle, "width")
               height == Attr(xmlEle, "height")
               alt    == Attr(xmlEle, "alt")
               src    == Attr(xmlEle, "src")
           IN  IF ~Truthy(width) \/ ~Truthy(height)
               THEN Throw(ArchiveParseError("unexpected image of unknown size",
                                            Null, <<Tag("image")>>))
               ELSE IF ~Truthy(src)
               THEN Throw(ArchiveParseError(
                              "unexpected image of empty or no resource names",
                              Null, <<Tag("image")>>))
               ELSE Ok(Image(src[1], ParseInt(width[1]), ParseInt(height[1]),
                             alt))
      [] xmlEle.name = "options" ->
           OptionsOf(Attr(xmlEle, "name"),
                     AllowElementOrEmptyText(xmlEle.children))
      [] OTHER -> UnexpectedFrameType(xmlEle)

RECURSIVE ParseDimensions(_, _, _)
\* The callback mapped over a quiz's dimension elements (index.ts:197-214).
ParseDimensions(eles, index, dIndex) ==
    IF dIndex >= Len(eles) THEN Ok(<<>>)
    ELSE Then(RewrapDimension(ParseXmlDimension(eles[dIndex + 1]),
                              index, dIndex),
              ParseDimensions(eles, index, dIndex + 1))

RECURSIVE ParseFrames(_, _, _)
\* The callback mapped over the elements of the frames container
\* (index.ts:218-234).
ParseFrames(eles, index, fIndex) ==
    IF fIndex >= Len(eles) THEN Ok(<<>>)
    ELSE Then(RewrapFrame(ParseXmlFrame(eles[fIndex + 1]), index, fIndex),
              ParseFrames(eles, index, fIndex + 1))

\* index.ts:191-242: the dimensions are mapped first, then the children of
\* the frames container are filtered and mapped, then the quiz is made.
QuizOf(name, creationStr, modificationStr, dimensions, frameEles, index) ==
    LET Made(frames) ==
            IF ~frames.ok THEN frames
            ELSE Ok(QuizArchive(
                        name,
                        Date(DateParse(creationStr)),
                        IF Truthy(modificationStr)
                        THEN Some(Date(DateParse(modificationStr[1])))
                        ELSE Null,
                        frames.value,
                        dimensions.value))
    IN  IF ~dimensions.ok THEN dimensions
        ELSE IF ~frameEles.ok THEN frameEles
        ELSE Made(ParseFrames(frameEles.value, index, 0))

\* Mutant: the first frames element is taken, however many there are.
ParseQuizFirstContainer(quiz, index) ==
    LET name                == Attr(quiz, "name")
        quizCreationStr     == Attr(quiz, "creation")
        quizModificationStr == Attr(quiz, "modification")
        framesElements      == ElementsNamed(quiz.children, "frames")
        at                  == <<Tag("archive"), TagAt("quiz", index)>>
    IN  IF name = Null
        THEN Throw(ArchiveParseError("missing name attribute", Null, at))
        ELSE IF ~Truthy(quizCreationStr)
        THEN Throw(ArchiveParseError("missing creation attribute", Null, at))
        ELSE IF Len(framesElements) <= 0
        THEN Throw(ArchiveParseError("missing <frames>", Null, at))
        ELSE QuizOf(name[1], quizCreationStr[1], quizModificationStr,
                    ParseDimensions(ElementsNamed(quiz.children, "dimension"),
                                    index, 0),
                    AllowElementOrEmptyText(framesElements[1].children),
                    index)

\* The callback mapped over the archive's child elements for one of them
\* (index.ts:149-243).
ParseQuiz(quiz, index) ==
    LET name                == Attr(quiz, "name")
        quizCreationStr     == Attr(quiz, "creation")
        quizModificationStr == Attr(quiz, "modification")
        framesElements      == ElementsNamed(quiz.children, "frames")
        at                  == <<Tag("archive"), TagAt("quiz", index)>>
    IN  IF name = Null
        THEN Throw(ArchiveParseError("missing name attribute", Null, at))
        ELSE IF ~Truthy(quizCreationStr)
        THEN Throw(ArchiveParseError("missing creation attribute", Null, at))
        ELSE IF Len(framesElements) <= 0
        THEN Throw(ArchiveParseError("missing <frames>", Null, at))
        ELSE IF Len(framesElements) > 1
        THEN Throw(ArchiveParseError("too many <frames>", Null, at))
        ELSE QuizOf(name[1], quizCreationStr[1], quizModificationStr,
                    ParseDimensions(ElementsNamed(quiz.children, "dimension"),
                                    index, 0),
                    AllowElementOrEmptyText(framesElements[1].children),
                    index)

RECURSIVE ParseQuizzes(_, _)
\* elements.map((quiz, index) => ...) (index.ts:148-244).
ParseQuizzes(elements, index) ==
    IF index >= Len(elements) THEN Ok(<<>>)
    ELSE Then(ParseQuiz(elements[index + 1], index),
              ParseQuizzes(elements, index + 1))

\* index.ts:134-147: the archive's children are filtered; an error of the
\* filter is thrown again with <archive> in front of its location and no
\* cause.
ArchiveElements(archiveE) ==
    Rewrap(AllowElementOrEmptyText(archiveE.children), Null,
           <<Tag("archive")>>
               \o LocationOf(AllowElementOrEmptyText(archiveE.children)))

\* index.ts:122-245, for the document element: its creation attribute, its
\* child elements, the quizzes, the archive.
ArchiveOf(archiveE) ==
    LET str == Attr(archiveE, "creation")
        Made(quizzes) ==
            IF ~quizzes.ok THEN quizzes
            ELSE Ok(PractisoArchive(quizzes.value, Date(DateParse(str[1])),
                                    <<>>))
        Mapped(elements) ==
            IF ~elements.ok THEN elements
            ELSE Made(ParseQuizzes(elements.value, 0))
    IN  IF ~Truthy(str)
        THEN Throw(ArchiveParseError("missing attribute creation", Null,
                                     <<Tag("archive")>>))
        ELSE Mapped(ArchiveElements(archiveE))

\* parseXmlArchive(xmlDoc) (index.ts:104-246).  Elements built by
\* htmlparser2's DomHandler carry no namespace, so the namespace test of
\* index.ts:114-120 never throws.
ParseXmlArchive(doc) ==
    LET NotDirective(n) == ~IsDirective(n)
        Rooted(top) ==
            IF ~top.ok THEN top
            ELSE IF top.value = <<>> \/ top.value[1].name # "archive"
            THEN Throw(ArchiveParseError(
                           "missing <archive> as document element", Null, <<>>))
            ELSE ArchiveOf(top.value[1])
    IN  Rooted(AllowElementOrEmptyText(SelectSeq(doc.children, NotDirective)))

-----------------------------------------------------------------------------
(* The resource table (index.ts:248-266, 423-437) *)

\* DataView.setInt32(0, value, false) of a Blob's size (never negative):
\* four bytes, most significant first.
SetInt32(value) ==
    <<value \div 16777216, (value \div 65536) % 256,
      (value \div 256) % 256, value % 256>>

\* DataView.getInt32(0, false) over four bytes: big-endian, signed.
GetInt32(b) ==
    (IF b[1] >= 128 THEN b[1] - 256 ELSE b[1]) * 16777216
        + b[2] * 65536 + b[3] * 256 + b[4]

\* Map.prototype.set on an insertion-ordered map, kept as a sequence of
\* [name, value] entries: an existing key keeps its place.
MapSet(map, name, value) ==
    IF \E k \in 1..Len(map) : map[k].name = name
    THEN [k \in 1..Len(map) |->
             IF map[k].name = name THEN [name |-> name, value |-> value]
             ELSE map[k]]
    ELSE Append(map, [name |-> name, value |-> value])

\* One pass of the while loop of parseResources (index.ts:255-262) with
\* the cursor at i.  `new DataView(buffer.buffer, i, 4)` throws a RangeError
\* unless the four bytes lie inside the buffer; slice clamps instead.
ResourcesIteration(buffer, i, resMap) ==
    LET nameTermination == IndexOf(buffer, 0, i)
        name  == Utf8Decode(Slice(buffer, i, nameTermination))
        at    == nameTermination + 1
        size  == GetInt32(SubSeq(buffer, at + 1, at + 4))
        from  == at + 4
    IN  IF at + 4 > Len(buffer)
        THEN [thrown |-> TRUE, i |-> at, resMap |-> resMap]
        ELSE [thrown |-> FALSE,
              i |-> from + size,
              resMap |-> MapSet(resMap, name, Slice(buffer, from, from + size))]

\* new ResourceArchive(resMap) (model.ts:83-102): every Blob of the map
\* becomes the producer `async () => value`.
ResourceArchiveOf(resMap) ==
    [k \in 1..Len(resMap) |->
        [name |-> resMap[k].name,
         producer |-> [kind |-> "blob", bytes |-> resMap[k].value]]]

\* parseResources is entered with the cursor at 0 and an empty map.
ResourcesFrame(buffer) ==
    [pc |-> "loop", buffer |-> buffer, i |-> 0, resMap |-> <<>>]

\* index.ts:254-265: one evaluation of the loop condition; the body when it
\* holds, the return when it does not.
ParseResourcesStep ==
    /\ res.pc = "loop"
    /\ IF res.i < Len(res.buffer)
       THEN LET it == ResourcesIteration(res.buffer, res.i, res.resMap)
            IN  res' = IF it.thrown
                       THEN [pc |-> "thrown", error |-> [kind |-> "RangeError"]]
                       ELSE [res EXCEPT !.i = it.i, !.resMap = it.resMap]
       ELSE res' = [pc |-> "returned",
                    value |-> ResourceArchiveOf(res.resMap)]
    /\ UNCHANGED <<composerVars, sinkVars, parserVars, mapperVars, result, modelVars>>

-----------------------------------------------------------------------------
(* Parser.sink (index.ts:62-88) *)

\* Mutant: the boundary NUL is kept as the first byte of the resource part.
SinkWriteKeepsNul(head, xml, resource, blob) ==
    LET terminatorIndex == IndexOf(blob, 0, 0)
    IN  IF head = "xml"
        THEN IF terminatorIndex >= 0
             THEN [readHead |-> "resource",
                   xmlParts |-> Append(xml, Slice(blob, 0, terminatorIndex)),
                   resourceParts |->
                       Append(resource, SliceFrom(blob, terminatorIndex))]
             ELSE [readHead |-> "xml",
                   xmlParts |-> Append(xml, blob),
                   resourceParts |-> resource]
        ELSE [readHead |-> "resource",
              xmlParts |-> xml,
              resourceParts |-> Append(resource, blob)]

\* Mutant: in the resource state a chunk that holds a NUL is split again
\* and the read head goes back to xml.
SinkWriteHeadReset(head, xml, resource, blob) ==
    LET terminatorIndex == IndexOf(blob, 0, 0)
    IN  IF head = "xml"
        THEN IF terminatorIndex >= 0
             THEN [readHead |-> "resource",
                   xmlParts |-> Append(xml, Slice(blob, 0, terminatorIndex)),
                   resourceParts |->
                       Append(resource, SliceFrom(blob, terminatorIndex + 1))]
             ELSE [readHead |-> "xml",
                   xmlParts |-> Append(xml, blob),
                   resourceParts |-> resource]
        ELSE IF terminatorIndex >= 0
             THEN [readHead |-> "xml",
                   xmlParts |-> Append(xml, SliceFrom(blob, terminatorIndex + 1)),
                   resourceParts |->
                       Append(resource, Slice(blob, 0, terminatorIndex))]
             ELSE [readHead |-> "resource",
                   xmlParts |-> xml,
                   resourceParts |-> Append(resource, blob)]

\* The body of the write handler after `await blob.bytes()`: the switch on
\* readHead.  Returns the Parser's three fields after the write.
SinkWrite(head, xml, resource, blob) ==
    LET terminatorIndex == IndexOf(blob, 0, 0)
    IN  IF head = "xml"
        THEN IF terminatorIndex >= 0
             THEN [readHead |-> "resource",
                   xmlParts |-> Append(xml, Slice(blob, 0, terminatorIndex)),
                   resourceParts |->
                       Append(resource, SliceFrom(blob, terminatorIndex + 1))]
             ELSE [readHead |-> "xml",
                   xmlParts |-> Append(xml, blob),
                   resourceParts |-> resource]
        ELSE [readHead |-> "resource",
              xmlParts |-> xml,
              resourceParts |-> Append(resource, blob)]

\* Values of the variables a specification does not use.
Idle == [pc |-> "idle"]

NoResult == [status |-> "none"]

\* No `for await` over the resources has begun: the passes made, the
\* entries passed, the producers invoked and the pairs yielded in the pass.
NoPass == [pc |-> "idle", pass |-> 0, k |-> 0, ran |-> <<>>, yielded |-> <<>>]

\* No producer invoked, no iteration, no call on a model object.
ModelInit ==
    /\ invoked = <<>>
    /\ iter = NoPass
    /\ calls = <<>>

ParserInit ==
    /\ readHead = "xml"
    /\ xmlParts = <<>>
    /\ resourceParts = <<>>

SinkInit ==
    /\ pending = <<>>
    /\ inflight = <<>>
    /\ written = <<>>
    /\ sinkState = "writable"

\* Bounds of the sink specification.
MaxChunks == 3

MaxChunkLen == 2

\* The bytes the environment writes: the NUL and one other value.
SinkBytes == {0, 1}

Chunks == UNION {[1..n -> SinkBytes] : n \in 0..MaxChunkLen}

\* writer.write(chunk): the WritableStream queues the chunk; its write
\* handler is invoked for one chunk at a time, in arrival order.
WriteCall(chunk) ==
    /\ sinkState = "writable"
    /\ pending' = Append(pending, chunk)
    /\ written' = Append(written, chunk)
    /\ UNCHANGED <<inflight, sinkState>>

\* Mutant of Dequeue: the stream hands over the newest queued chunk.
DequeueNewest(queue) ==
    [chunk |-> queue[Len(queue)], rest |-> SubSeq(queue, 1, Len(queue) - 1)]

\* The chunk the WritableStream passes to its write handler next (the
\* `write` of index.ts:66): the oldest one queued.
Dequeue(queue) == [chunk |-> Head(queue), rest |-> Tail(queue)]

\* index.ts:66-68: the handler starts and suspends at `await blob.bytes()`.
WriteBegin ==
    /\ inflight = <<>>
    /\ pending # <<>>
    /\ inflight' = <<Dequeue(pending).chunk>>
    /\ pending' = Dequeue(pending).rest
    /\ UNCHANGED <<written, sinkState, parserVars>>
    /\ UNCHANGED <<composerVars, mapperVars, res, result, modelVars>>

\* index.ts:69-85: the handler resumes and files the chunk.
WriteEnd ==
    /\ inflight # <<>>
    /\ LET after == SinkWrite(readHead, xmlParts, resourceParts, inflight[1])
       IN  /\ readHead' = after.readHead
           /\ xmlParts' = after.xmlParts
           /\ resourceParts' = after.resourceParts
    /\ inflight' = <<>>
    /\ UNCHANGED <<pending, written, sinkState>>
    /\ UNCHANGED <<composerVars, mapperVars, res, result, modelVars>>

\* writer.close() / the end of pipeTo: the stream closes once every queued
\* write has been handled.
SinkClose ==
    /\ sinkState = "writable"
    /\ pending = <<>>
    /\ inflight = <<>>
    /\ sinkState' = "closed"
    /\ UNCHANGED <<pending, inflight, written, parserVars>>
    /\ UNCHANGED <<composerVars, mapperVars, res, result, modelVars>>

-----------------------------------------------------------------------------
(* Composer.source (index.ts:414-441) and the pipe into Parser.sink *)

\* controller.enqueue(chunk), for each of the chunks in turn.
Enqueue(stream, chunks) == [stream EXCEPT !.queue = @ \o chunks]

\* The three chunks that open a resource's record (index.ts:426-434): its
\* name, the NUL, the big-endian size of its content.
RecordHeader(name, content) ==
    <<Utf8Encode(name), <<0>>, SetInt32(Len(content))>>

\* Mutant: the NUL between the document and the table is written even when
\* the collection is empty.
ComposerOpeningAlwaysNul(a) ==
    <<Utf8Encode(Render(ArchiveToXml(a))), <<0>>>>

\* index.ts:417-424: the document's text, then the NUL when there are
\* resources.
ComposerOpening(a) ==
    <<Utf8Encode(Render(ArchiveToXml(a)))>>
        \o (IF Len(a.resources) > 0 THEN <<<<0>>>> ELSE <<>>)

\* Mutant of ComposerFailure: the error is wrapped in a new one.
ComposerFailureWrapped(stream, settled) ==
    [queue |-> <<>>, state |-> "errored",
     error |-> [kind |-> "Error", message |-> "compose failed",
                cause |-> Some(settled.error), location |-> <<>>]]

\* The promise start() returned rejects with what the producer rejected
\* with (model.ts:153, index.ts:425, 416): the stream is errored with it
\* and the chunks not read yet are dropped.
ComposerFailure(stream, settled) ==
    [queue |-> <<>>, state |-> "errored", error |-> settled.error]

\* start() up to its first await (index.ts:417-425): with resources it
\* invokes the first producer and suspends on it, without it closes the
\* stream.
ComposerStart ==
    /\ composer.pc = "start"
    /\ IF Len(archive.resources) > 0
       THEN /\ source' = Enqueue(source, ComposerOpening(archive))
            /\ composer' = [pc |-> "resolve", k |-> 1]
            /\ invoked' = Append(invoked, archive.resources[1].name)
       ELSE /\ source' = [Enqueue(source, ComposerOpening(archive))
                             EXCEPT !.state = "closed"]
            /\ composer' = [pc |-> "done", k |-> 0]
            /\ UNCHANGED invoked
    /\ UNCHANGED <<archive, sinkVars, parserVars, mapperVars, res, result,
                   iter, calls>>

\* The k-th producer settles (model.ts:153-154).  Resolved, the loop body
\* writes the record's header and suspends at `await content.bytes()`
\* (index.ts:426-435); rejected, start() fails.
ComposerResolve ==
    /\ composer.pc = "resolve"
    /\ LET entry == archive.resources[composer.k]
       IN  IF Invoke(entry.producer).ok
           THEN /\ source' = Enqueue(source,
                                 RecordHeader(entry.name,
                                              Invoke(entry.producer).value))
                /\ composer' = [pc |-> "content", k |-> composer.k]
           ELSE /\ source' = ComposerFailure(source, Invoke(entry.producer))
                /\ composer' = [pc |-> "failed", k |-> composer.k]
    /\ UNCHANGED <<archive, sinkVars, parserVars, mapperVars, res, result, modelVars>>

\* index.ts:435-438: the content is written; the iteration goes on to
\* invoke the next producer, or ends and the stream is closed.
ComposerContent ==
    /\ composer.pc = "content"
    /\ LET entry == archive.resources[composer.k]
           after == Enqueue(source, <<Invoke(entry.producer).value>>)
       IN  IF composer.k < Len(archive.resources)
           THEN /\ source' = after
                /\ composer' = [pc |-> "resolve", k |-> composer.k + 1]
                /\ invoked' = Append(invoked,
                                     archive.resources[composer.k + 1].name)
           ELSE /\ source' = [after EXCEPT !.state = "closed"]
                /\ composer' = [pc |-> "done", k |-> composer.k]
                /\ UNCHANGED invoked
    /\ UNCHANGED <<archive, sinkVars, parserVars, mapperVars, res, result,
                   iter, calls>>

\* source.pipeTo(parser.sink): the next chunk of the source is written to
\* the sink.
PipeRead ==
    /\ source.queue # <<>>
    /\ WriteCall(Head(source.queue))
    /\ source' = [source EXCEPT !.queue = Tail(@)]
    /\ UNCHANGED <<archive, composer, parserVars, mapperVars, res, result, modelVars>>

\* pipeTo closes the sink after the closed source's last chunk is handled.
PipeClose ==
    /\ source.state = "closed"
    /\ source.queue = <<>>
    /\ pending = <<>>
    /\ inflight = <<>>
    /\ sinkState = "writable"
    /\ sinkState' = "closed"
    /\ UNCHANGED <<pending, inflight, written>>
    /\ UNCHANGED <<composerVars, parserVars, mapperVars, res, result, modelVars>>

\* pipeTo aborts the sink once the source is errored and the writes under
\* way are handled.
PipeAbort ==
    /\ source.state = "errored"
    /\ pending = <<>>
    /\ inflight = <<>>
    /\ sinkState = "writable"
    /\ sinkState' = "errored"
    /\ UNCHANGED <<pending, inflight, written>>
    /\ UNCHANGED <<composerVars, parserVars, mapperVars, res, result, modelVars>>

-----------------------------------------------------------------------------
(* Parser.result() (index.ts:90-101) *)

\* index.ts:91-98: the document bytes are decoded, parsed and mapped; when
\* the mapping throws, so does result(); otherwise parseResources starts on
\* the resource bytes.
ResultBegin ==
    /\ result = NoResult
    /\ res = Idle
    /\ xmlDoc' = XmlParse(Utf8Decode(Concat(xmlParts)))
    /\ mapped' = ParseXmlArchive(xmlDoc')
    /\ IF mapped'.ok
       THEN /\ res' = ResourcesFrame(Concat(resourceParts))
            /\ result' = result
       ELSE /\ res' = res
            /\ result' = [status |-> "error", error |-> mapped'.error]
    /\ UNCHANGED <<composerVars, sinkVars, parserVars, modelVars>>

\* index.ts:98-100: parseResources has returned, its collection becomes the
\* archive's and result() returns the archive; or it has thrown, and so
\* does result().
ResultEnd ==
    /\ result = NoResult
    /\ res.pc \in {"returned", "thrown"}
    /\ result' = IF res.pc = "returned"
                 THEN [status |-> "ok",
                       archive |-> [mapped.value EXCEPT !.resources = res.value]]
                 ELSE [status |-> "error", error |-> res.error]
    /\ UNCHANGED <<composerVars, sinkVars, parserVars, mapperVars, res, modelVars>>

SinkInitAll ==
    /\ ParserInit
    /\ SinkInit
    /\ archive = Idle
    /\ composer = Idle
    /\ source = Idle
    /\ xmlDoc = Idle
    /\ mapped = NoResult
    /\ res = Idle
    /\ result = NoResult
    /\ ModelInit

SinkEnvWrite ==
    /\ Len(written) < MaxChunks
    /\ \E chunk \in Chunks : WriteCall(chunk)
    /\ UNCHANGED <<parserVars, composerVars, mapperVars, res, result, modelVars>>

SinkNext == SinkEnvWrite \/ WriteBegin \/ WriteEnd \/ SinkClose

\* Arbitrary chunks written to a fresh Parser's sink.
SpecSink == SinkInitAll /\ [][SinkNext]_vars

-----------------------------------------------------------------------------
(* Archives built through the model's constructors *)

\* Bounds of the archives.
MaxQuizzes == 2

MaxResources == 2

\* Strings: '', 'a' and "a <'" (a space and two characters markup
\* reserves).
Strings == {<<>>, <<97>>, <<97, 32, 60, 39>>}

\* Nullable strings: null, '', 'a'.
NullableStrings == {Null, Some(<<>>), Some(<<97>>)}

TextFrames == {Text(str) : str \in Strings}

ImageFrames ==
    {Image(<<97>>, Num(size[1]), Num(size[2]), alt) :
        size \in {<<-1, -1>>, <<12, 0>>}, alt \in NullableStrings}

\* Options over a leaf frame: none, one, or two options.
OptionPool ==
    {Option(Text(<<97>>), FALSE, Num(0)),
     Option(Text(<<>>), FALSE, Num(0)),
     Option(Image(<<97>>, Num(12), Num(0), Null), TRUE, Num(-3))}

FlatOptions ==
    {Options(name, items) :
        name \in NullableStrings,
        items \in {<<>>} \cup {<<o>> : o \in OptionPool}
                    \cup {<<Option(Text(<<97>>), TRUE, Num(10)), o>> :
                             o \in OptionPool}}

\* Options nested in Options.
NestedOptions ==
    {Options(Null, <<Option(inner, TRUE, Num(1))>>) :
        inner \in {Options(name, <<Option(Text(<<97>>), FALSE, Num(0))>>) :
                      name \in NullableStrings}}

Frames == TextFrames \cup ImageFrames \cup FlatOptions \cup NestedOptions

\* Dimensions with every intensity of [0, 1] in tenths.
Dimensions == {Dimension(<<97>>, Num(t)) : t \in 0..10}

Dates == {Date(Num(t)) : t \in {0, 7, 15}}

PlainQuiz == QuizArchive(<<97>>, Date(Num(7)), Null, <<Text(<<97>>)>>, <<>>)

Quizzes ==
    {QuizArchive(<<97>>, Date(Num(7)), Null, <<f>>, <<>>) : f \in Frames}
    \cup {QuizArchive(name, c, m, <<>>, <<>>) :
             name \in Strings, c \in Dates,
             m \in {Null, Some(Date(Num(15)))}}
    \cup {QuizArchive(<<97>>, Date(Num(7)), Null,
                      <<Text(<<97>>), Image(<<97>>, Num(12), Num(0), Null)>>,
                      <<d, Dimension(<<98>>, Num(10))>>) : d \in Dimensions}

\* Resource names: 'r', 'é' (two bytes of UTF-8), '' and U+FEFF.
ResourceNames == {<<114>>, <<233>>, <<>>, ByteOrderMark}

\* Resource contents: empty, bytes around a NUL, a high byte.
ResourceContents == {<<>>, <<1, 0, 2>>, <<255>>}

Injective(seq) ==
    \A i, j \in 1..Len(seq) : seq[i].name = seq[j].name => i = j

\* ResourceArchive maps built by put(name, blob): distinct names, in
\* insertion order.
ResourceTables ==
    {table \in UNION {[1..n -> [name : ResourceNames,
                                producer : {BlobProducer(c) :
                                               c \in ResourceContents}]] :
                         n \in 0..MaxResources} : Injective(table)}

QuizLists ==
    {<<>>} \cup {<<q>> : q \in Quizzes}
        \cup {[k \in 1..n |-> PlainQuiz] : n \in 2..MaxQuizzes}

Archives ==
    {PractisoArchive(content, Date(Num(7)), <<>>) : content \in QuizLists}
    \cup {PractisoArchive(<<>>, c, <<>>) : c \in Dates}
    \cup {PractisoArchive(<<>>, Date(Num(7)), table) :
             table \in ResourceTables}
    \cup {PractisoArchive(<<PlainQuiz>>, Date(Num(7)), table) :
             table \in {t \in ResourceTables : Len(t) = 1}}

-----------------------------------------------------------------------------
(* Compose, pipe, parse: `await composer.source.pipeTo(parser.sink)` and
   then `await parser.result()`, as the composer tests do. *)

Init ==
    /\ archive \in Archives
    /\ composer = [pc |-> "start", k |-> 0]
    /\ source = [queue |-> <<>>, state |-> "readable"]
    /\ SinkInit
    /\ ParserInit
    /\ xmlDoc = Idle
    /\ mapped = NoResult
    /\ res = Idle
    /\ result = NoResult
    /\ ModelInit

\* result() is called once pipeTo has resolved.
PipedResultBegin == sinkState = "closed" /\ ResultBegin

Next ==
    \/ ComposerStart
    \/ ComposerResolve
    \/ ComposerContent
    \/ PipeRead
    \/ WriteBegin
    \/ WriteEnd
    \/ PipeClose
    \/ PipedResultBegin
    \/ ParseResourcesStep
    \/ ResultEnd

Spec == Init /\ [][Next]_vars

\* Archives whose resources were put as bytes, as suppliers and as
\* Promises, some of which reject.
Producers ==
    {BlobProducer(<<1, 0, 2>>), SupplierProducer(Ok(<<255>>)),
     SupplierProducer(Throw(Rejection)), PromiseProducer(Throw(Rejection))}

DeferredArchives ==
    {PractisoArchive(<<>>, Date(Num(7)), table) :
        table \in {t \in UNION {[1..n -> [name : PutNames,
                                          producer : Producers]] :
                                   n \in 1..MaxResources} : Injective(t)}}

ComposeInit ==
    /\ archive \in DeferredArchives
    /\ composer = [pc |-> "start", k |-> 0]
    /\ source = [queue |-> <<>>, state |-> "readable"]
    /\ SinkInit
    /\ ParserInit
    /\ xmlDoc = Idle
    /\ mapped = NoResult
    /\ res = Idle
    /\ result = NoResult
    /\ ModelInit

ComposeNext ==
    \/ ComposerStart
    \/ ComposerResolve
    \/ ComposerContent
    \/ PipeRead
    \/ WriteBegin
    \/ WriteEnd
    \/ PipeClose
    \/ PipeAbort

SpecCompose == ComposeInit /\ [][ComposeNext]_vars

\* As above, with `parser.result()` called at any moment: nothing in
\* result() (index.ts:90-101) waits for the sink to be closed.
EarlyNext ==
    \/ ComposeNext
    \/ ResultBegin
    \/ ParseResourcesStep
    \/ ResultEnd

SpecEarly == ComposeInit /\ [][EarlyNext]_vars

-----------------------------------------------------------------------------
(* Documents and resource sections written to a Parser by hand *)

\* Bounds of the documents: the quizzes of an archive element and the
\* frames of a quiz.
MaxDocQuizzes == 2

MaxDocFrames == 2

\* 'T7Z', a timestamp, and 'a', 'b', ' ', '1', 'x'.
Stamp == <<84, 55, 90>>

LetterA == <<97>>

LetterB == <<98>>

Blank == <<32>>

DigitOne == <<49>>

LetterX == <<120>>

\* <text>a</text>, <image src="a" width="1" height="1"></image>, <video>.
TextE == Element("text", <<>>, <<XmlText(LetterA)>>)

ImageE ==
    Element("image",
            <<KV("src", LetterA), KV("width", DigitOne), KV("height", DigitOne)>>,
            <<>>)

VideoE == Element("video", <<>>, <<>>)

\* Text elements of every arity: no child, one text, a text and an element,
\* two elements, one element, one comment.
TextElements ==
    {Element("text", <<>>, children) :
        children \in {<<>>, <<XmlText(LetterA)>>, <<XmlText(LetterA), ImageE>>,
                      <<ImageE, ImageE>>, <<ImageE>>, <<Comment(LetterA)>>}}

\* Item elements: with or without a priority, around no, one or two
\* element children, a text beside them, or a frame that fails.
ItemElements ==
    {Element("item", <<KV("priority", DigitOne)>>, children) :
        children \in {<<>>, <<XmlText(LetterB)>>, <<TextE>>, <<TextE, ImageE>>,
                      <<ImageE, TextE, TextE>>, <<XmlText(Blank), TextE>>,
                      <<VideoE>>, <<Element("text", <<>>, <<>>)>>,
                      <<Element("text", <<>>, <<ImageE, ImageE>>)>>}}
    \cup {Element("item", attribs, <<TextE>>) :
             attribs \in {<<>>, <<KV("priority", LetterX)>>,
                          <<KV("priority", DigitOne), KV("key", TrueChars)>>}}

\* Options elements: one item, or a good item before another, or an item
\* around options around a frame that fails.
OptionsElements ==
    {Element("options", <<>>, <<item>>) : item \in ItemElements}
    \cup {Element("options", <<KV("name", LetterA)>>,
                  <<Element("item", <<KV("priority", DigitOne)>>, <<TextE>>),
                    item>>) : item \in ItemElements}
    \cup {Element("options", <<>>,
                  <<Element("item", <<KV("priority", DigitOne)>>,
                            <<Element("options", <<>>,
                                      <<Element("item",
                                                <<KV("priority", DigitOne)>>,
                                                <<inner>>)>>)>>)>>) :
             inner \in {TextE, VideoE, Element("text", <<>>, <<ImageE, ImageE>>)}}
    \cup {Element("options", <<>>, <<TextE>>)}

\* Elements that are no frames, at a frame's place and inside an item.
StrayElements ==
    {Element("item", <<KV("priority", DigitOne)>>, <<TextE>>),
     Element("quiz", <<KV("name", LetterA), KV("creation", Stamp)>>, <<>>)}

StrayFrames ==
    StrayElements
    \cup {Element("options", <<>>,
                  <<Element("item", <<KV("priority", DigitOne)>>, <<TextE>>),
                    Element("item", <<KV("priority", DigitOne)>>, <<stray>>)>>) :
             stray \in StrayElements}

FrameElements ==
    TextElements \cup OptionsElements \cup {ImageE, VideoE} \cup StrayFrames

\* <quiz name="a" creation="T7Z"><frames>...</frames></quiz>
QuizE(frames) ==
    Element("quiz", <<KV("name", LetterA), KV("creation", Stamp)>>,
            <<Element("frames", <<>>, frames)>>)

\* <archive creation="T7Z">...</archive>
ArchiveE(children) == Element("archive", <<KV("creation", Stamp)>>, children)

\* A frame element as the last frame of the last quiz, after good ones.
FrameDocuments ==
    {Document(<<ArchiveE([i \in 1..quizzes |->
                   QuizE(IF i = quizzes
                         THEN [f \in 1..frames |->
                                  IF f = frames THEN frame ELSE TextE]
                         ELSE <<TextE>>)])>>) :
        quizzes \in 1..MaxDocQuizzes, frames \in 1..MaxDocFrames,
        frame \in FrameElements}

\* The archive element's creation attribute: absent, empty, no timestamp, a
\* timestamp; without and with a quiz.
CreationDocuments ==
    {Document(<<Element("archive", attribs, children)>>) :
        attribs \in {<<>>, <<KV("creation", <<>>)>>,
                     <<KV("creation", LetterX)>>, <<KV("creation", Stamp)>>},
        children \in {<<>>, <<QuizE(<<TextE>>)>>}}

\* The nodes that are no elements: a comment, two directives, white space,
\* other text.
OtherNodes ==
    {Comment(LetterA), Directive(<<63, 120, 109, 108, 63>>),
     Directive(<<33, 68, 79, 67, 84, 89, 80, 69, 32, 97>>),
     XmlText(Blank), XmlText(<<10, 32>>), XmlText(LetterX)}

\* seq with value put in after its first `before` elements.
InsertAt(seq, before, value) ==
    SubSeq(seq, 1, before) \o <<value>> \o SubSeq(seq, before + 1, Len(seq))

\* A good document with one such node added among the top-level nodes or
\* among the archive element's children.
NodeDocuments ==
    {Document(InsertAt(<<ArchiveE(children)>>, before, node)) :
        children \in {<<>>, <<QuizE(<<TextE>>)>>}, before \in 0..1,
        node \in OtherNodes}
    \cup {Document(<<ArchiveE(InsertAt(<<QuizE(<<TextE>>)>>, before, node))>>) :
             before \in 0..1, node \in OtherNodes}
    \cup {Document(<<>>), Document(<<QuizE(<<TextE>>)>>)}

\* <frames>...</frames>
FramesE(children) == Element("frames", <<>>, children)

\* <dimension name="a">text</dimension>
DimensionE(text) ==
    Element("dimension", <<KV("name", LetterA)>>, <<XmlText(text)>>)

\* '0.5', '0', '1', '1.1', '-0.1', '2'
Half == <<48, 46, 53>>

Zero == <<48>>

OverOne == <<49, 46, 49>>

UnderZero == <<45, 48, 46, 49>>

Two == <<50>>

\* Dimension elements: intensities inside and outside [0, 1], no number,
\* no name, no child, two children, an element for a child.
DimensionElements ==
    {DimensionE(text) :
        text \in {Half, Zero, DigitOne, OverOne, UnderZero, Two, LetterX}}
    \cup {Element("dimension", <<>>, <<XmlText(Half)>>),
          Element("dimension", <<KV("name", LetterA)>>, <<>>),
          Element("dimension", <<KV("name", LetterA)>>,
                  <<XmlText(Half), TextE>>),
          Element("dimension", <<KV("name", LetterA)>>, <<TextE>>)}

\* The children of a quiz element: no, one, two, three frames elements,
\* frames in one of them, nodes that are no frames, dimensions before and
\* after the frames.
QuizChildren ==
    {<<>>, <<XmlText(Blank)>>, <<DimensionE(Half)>>,
     <<FramesE(<<>>)>>, <<FramesE(<<TextE, ImageE>>)>>,
     <<XmlText(Blank), FramesE(<<ImageE, XmlText(Blank), TextE>>)>>,
     <<FramesE(<<TextE>>), FramesE(<<ImageE>>)>>,
     <<FramesE(<<>>), DimensionE(Half), FramesE(<<>>), FramesE(<<>>)>>,
     <<FramesE(<<XmlText(LetterX)>>)>>, <<FramesE(<<Comment(LetterA)>>)>>,
     <<FramesE(<<TextE, XmlText(LetterX)>>)>>}
    \cup {<<FramesE(<<TextE>>), DimensionE(Half), d>> : d \in DimensionElements}
    \cup {<<d, FramesE(<<VideoE>>)>> : d \in DimensionElements}

\* The attributes of a quiz element: both, a modification too, an empty
\* name, no name, no or an empty creation.
QuizAttribs ==
    {<<KV("name", LetterA), KV("creation", Stamp)>>,
     <<KV("name", LetterA), KV("creation", Stamp), KV("modification", Stamp)>>,
     <<KV("name", <<>>), KV("creation", Stamp)>>,
     <<KV("creation", Stamp)>>,
     <<KV("name", LetterA)>>,
     <<KV("name", LetterA), KV("creation", <<>>)>>,
     <<>>}

\* A quiz element of any of these shapes as the last quiz of an archive,
\* after good ones.
QuizDocuments ==
    {Document(<<ArchiveE([i \in 1..quizzes |->
                   IF i = quizzes THEN Element("quiz", shape[1], shape[2])
                   ELSE QuizE(<<TextE>>)])>>) :
        quizzes \in 1..MaxDocQuizzes,
        shape \in (QuizAttribs \X {<<>>, <<FramesE(<<TextE>>)>>})
                     \cup ({<<KV("name", LetterA), KV("creation", Stamp)>>}
                              \X QuizChildren)}

Documents ==
    FrameDocuments \cup CreationDocuments \cup NodeDocuments
        \cup QuizDocuments

\* The bytes of the records of a table, as Composer writes them.
RECURSIVE TableBytes(_)
TableBytes(table) ==
    IF table = <<>> THEN <<>>
    ELSE Concat(RecordHeader(table[1].name, table[1].producer.bytes))
             \o table[1].producer.bytes \o TableBytes(Tail(table))

\* Resource sections: those of the tables with names 'r' and 'é' and
\* contents of no and of three bytes, cut after any number of bytes.
ResourceSections ==
    UNION {{SubSeq(TableBytes(table), 1, n) : n \in 0..Len(TableBytes(table))} :
              table \in {t \in ResourceTables :
                            \A k \in 1..Len(t) :
                                /\ t[k].name \in {<<114>>, <<233>>}
                                /\ t[k].producer.bytes \in {<<>>, <<1, 0, 2>>}}}

\* What is written to the sink, in one chunk: a document, or the empty
\* archive's document, the NUL and a resource section.
Inputs ==
    {Utf8Encode(RenderAll(doc.children)) : doc \in Documents}
    \cup {Utf8Encode(Render(ArchiveE(<<>>))) \o <<0>> \o section :
             section \in ResourceSections}

\* A fresh Parser and one chunk written to its sink.
ResultInit ==
    /\ ParserInit
    /\ \E input \in Inputs :
          /\ pending = <<input>>
          /\ written = <<input>>
    /\ inflight = <<>>
    /\ sinkState = "writable"
    /\ archive = Idle
    /\ composer = Idle
    /\ source = Idle
    /\ xmlDoc = Idle
    /\ mapped = NoResult
    /\ res = Idle
    /\ result = NoResult
    /\ ModelInit

ResultNext ==
    \/ WriteBegin
    \/ WriteEnd
    \/ SinkClose
    \/ PipedResultBegin
    \/ ParseResourcesStep
    \/ ResultEnd

\* The chunk is handled, the sink closed, result() called.
SpecResult == ResultInit /\ [][ResultNext]_vars

-----------------------------------------------------------------------------
(* The model objects used directly: ResourceArchive and DimensionArchive
   (model.ts:80-157, 262-281) *)

\* Bounds: the calls made on the objects, the passes over the collection.
MaxCalls == 3

MaxPasses == 2

\* put's futureBytes: bytes (a Blob or BlobPart[]), a function, a Promise.
GivenBytes(bytes) == [form |-> "bytes", bytes |-> bytes]

GivenFunction(settles) == [form |-> "function", settles |-> settles]

GivenPromise(settles) == [form |-> "promise", settles |-> settles]

\* Map.prototype.has / get / delete on the insertion-ordered source map.
SourceHas(src, name) == \E k \in 1..Len(src) : src[k].name = name

SourceGet(src, name) ==
    src[CHOOSE k \in 1..Len(src) : src[k].name = name].producer

SourceDelete(src, name) ==
    LET Other(entry) == entry.name # name
    IN  SelectSeq(src, Other)

\* Map.prototype.set: a name already there keeps its place.
SourceSet(src, name, producer) ==
    IF SourceHas(src, name)
    THEN [k \in 1..Len(src) |->
             IF src[k].name = name THEN [name |-> name, producer |-> producer]
             ELSE src[k]]
    ELSE Append(src, [name |-> name, producer |-> producer])

\* ResourceArchive.put (model.ts:112-135): the map after the call.
ResourcePut(src, name, futureBytes) ==
    SourceSet(src, name,
              CASE futureBytes.form = "promise" ->
                     PromiseProducer(futureBytes.settles)
                [] futureBytes.form = "function" ->
                     SupplierProducer(futureBytes.settles)
                [] OTHER -> BlobProducer(futureBytes.bytes))

\* The map once the producer under the name, if any, has been invoked.
SourceInvoked(src, name) ==
    [k \in 1..Len(src) |->
        IF src[k].name = name
        THEN [name |-> name, producer |-> Invoked(src[k].producer)]
        ELSE src[k]]

\* Mutant of ResourceGet: an absent name resolves to an empty Blob.
ResourceGetEmptyWhenAbsent(src, name) ==
    IF SourceHas(src, name)
    THEN [returned |-> IF Invoke(SourceGet(src, name)).ok
                       THEN Ok(Some(Invoke(SourceGet(src, name)).value))
                       ELSE Invoke(SourceGet(src, name)),
          ran |-> <<name>>]
    ELSE [returned |-> Ok(Some(<<>>)), ran |-> <<>>]

\* ResourceArchive.get (model.ts:104-110): what the call's promise settles
\* to (the content, or undefined for a name not there) and the producers
\* it invoked.
ResourceGet(src, name) ==
    IF SourceHas(src, name)
    THEN [returned |-> IF Invoke(SourceGet(src, name)).ok
                       THEN Ok(Some(Invoke(SourceGet(src, name)).value))
                       ELSE Invoke(SourceGet(src, name)),
          ran |-> <<name>>]
    ELSE [returned |-> Ok(Null), ran |-> <<>>]

\* ResourceArchive.remove (model.ts:137-141): the stored producer, or
\* undefined, and the map after the call; no producer is invoked.
ResourceRemove(src, name) ==
    [returned |-> IF SourceHas(src, name) THEN Some(SourceGet(src, name))
                  ELSE Null,
     source |-> SourceDelete(src, name),
     ran |-> <<>>]

\* ResourceArchive.size (model.ts:143-145) and keys() (model.ts:147-149).
ResourceSize(src) == Len(src)

ResourceKeys(src) == [k \in 1..Len(src) |-> src[k].name]

PutBytes ==
    {GivenBytes(<<1, 0, 2>>), GivenFunction(Ok(<<255>>)),
     GivenPromise(Ok(<<7>>)), GivenFunction(Throw(Rejection))}

\* Intensities in tenths: -0.1, 0, 0.5, 1, 1.1, and NaN.
Intensities == {Num(-1), Num(0), Num(5), Num(10), Num(11), NaN}

\* A call's record: what was called, on what, what it returned, and the
\* producers it invoked.
Called(call, name, given, returned, ran) ==
    [call |-> call, name |-> name, given |-> given, returned |-> returned,
     ran |-> ran]

\* A new PractisoArchive: no quizzes, an empty ResourceArchive.
ModelObjectsInit ==
    /\ archive = PractisoArchive(<<>>, Date(Num(7)), <<>>)
    /\ invoked = <<>>
    /\ iter = NoPass
    /\ calls = <<>>
    /\ composer = Idle
    /\ source = Idle
    /\ SinkInit
    /\ ParserInit
    /\ xmlDoc = Idle
    /\ mapped = NoResult
    /\ res = Idle
    /\ result = NoResult

\* No pass over the collection is under way.
Quiet == iter.pc \in {"idle", "done", "thrown"}

\* archive.resources.put(name, futureBytes)
PutCall ==
    /\ Quiet
    /\ Len(calls) < MaxCalls
    /\ \E name \in PutNames, given \in PutBytes :
          /\ archive' = [archive EXCEPT
                            !.resources = ResourcePut(@, name, given)]
          /\ calls' = Append(calls, Called("put", name, given, Null, <<>>))
    /\ UNCHANGED <<invoked, iter>>
    /\ UNCHANGED <<composer, source, sinkVars, parserVars, mapperVars, res,
                   result>>

\* await archive.resources.get(name)
GetCall ==
    /\ Quiet
    /\ Len(calls) < MaxCalls
    /\ \E name \in PutNames :
          LET got == ResourceGet(archive.resources, name)
          IN  /\ invoked' = invoked \o got.ran
              /\ calls' = Append(calls, Called("get", name, Null,
                                               got.returned, got.ran))
              /\ archive' = [archive EXCEPT
                                !.resources = SourceInvoked(@, name)]
    /\ UNCHANGED iter
    /\ UNCHANGED <<composer, source, sinkVars, parserVars, mapperVars, res,
                   result>>

\* archive.resources.remove(name)
RemoveCall ==
    /\ Quiet
    /\ Len(calls) < MaxCalls
    /\ \E name \in PutNames :
          LET removed == ResourceRemove(archive.resources, name)
          IN  /\ archive' = [archive EXCEPT !.resources = removed.source]
              /\ invoked' = invoked \o removed.ran
              /\ calls' = Append(calls, Called("remove", name, Null,
                                               removed.returned, removed.ran))
    /\ UNCHANGED iter
    /\ UNCHANGED <<composer, source, sinkVars, parserVars, mapperVars, res,
                   result>>

\* new DimensionArchive('a', intensity)
NewDimensionArchive ==
    /\ Len(calls) < MaxCalls
    /\ \E intensity \in Intensities :
          calls' = Append(calls,
                          Called("DimensionArchive", <<97>>, intensity,
                                 DimensionArchive(<<97>>, intensity), <<>>))
    /\ UNCHANGED <<archive, invoked, iter>>
    /\ UNCHANGED <<composer, source, sinkVars, parserVars, mapperVars, res,
                   result>>

\* Mutant of AsyncIteratorStep: after the first pass the bytes resolved
\* in it are reused, no producer being invoked again.
AsyncIteratorStepCached(src, it) ==
    CASE it.pc = "running" /\ it.k = Len(src) ->
           [it EXCEPT !.pc = "done"]
      [] it.pc = "running" ->
           [it EXCEPT !.pc = "awaiting",
                      !.ran = IF it.pass > 1 THEN @
                              ELSE Append(@, src[it.k + 1].name)]
      [] OTHER ->
           IF Invoke(src[it.k + 1].producer).ok
           THEN [it EXCEPT !.pc = "running", !.k = @ + 1,
                           !.yielded =
                               Append(@, <<src[it.k + 1].name,
                                           Invoke(src[it.k + 1].producer).value>>)]
           ELSE [it EXCEPT !.pc = "thrown"]

\* One step of the generator of ResourceArchive[Symbol.asyncIterator]
\* (model.ts:151-156): running, it ends after the last entry or invokes the
\* next entry's producer and awaits it; awaiting, it yields the pair when
\* the producer resolved and throws when it rejected.
AsyncIteratorStep(src, it) ==
    CASE it.pc = "running" /\ it.k = Len(src) ->
           [it EXCEPT !.pc = "done"]
      [] it.pc = "running" ->
           [it EXCEPT !.pc = "awaiting",
                      !.ran = Append(@, src[it.k + 1].name)]
      [] OTHER ->
           IF Invoke(src[it.k + 1].producer).ok
           THEN [it EXCEPT !.pc = "running", !.k = @ + 1,
                           !.yielded =
                               Append(@, <<src[it.k + 1].name,
                                           Invoke(src[it.k + 1].producer).value>>)]
           ELSE [it EXCEPT !.pc = "thrown"]

\* `for await (const [name, content] of archive.resources)` begins.
IterStart ==
    /\ Quiet
    /\ iter.pass < MaxPasses
    /\ iter' = [NoPass EXCEPT !.pc = "running", !.pass = iter.pass + 1]
    /\ UNCHANGED <<archive, invoked, calls>>
    /\ UNCHANGED <<composer, source, sinkVars, parserVars, mapperVars, res,
                   result>>

\* The loop asks for the next pair: the generator runs to its next await.
IterInvoke ==
    /\ iter.pc = "running"
    /\ iter' = AsyncIteratorStep(archive.resources, iter)
    /\ invoked' = invoked \o SubSeq(iter'.ran, Len(iter.ran) + 1, Len(iter'.ran))
    /\ UNCHANGED <<archive, calls>>
    /\ UNCHANGED <<composer, source, sinkVars, parserVars, mapperVars, res,
                   result>>

\* The awaited producer settles: the pair is yielded, or the pass throws.
IterSettle ==
    /\ iter.pc = "awaiting"
    /\ iter' = AsyncIteratorStep(archive.resources, iter)
    /\ UNCHANGED <<archive, invoked, calls>>
    /\ UNCHANGED <<composer, source, sinkVars, parserVars, mapperVars, res,
                   result>>

ModelNext ==
    \/ PutCall
    \/ GetCall
    \/ RemoveCall
    \/ NewDimensionArchive
    \/ IterStart
    \/ IterInvoke
    \/ IterSettle

SpecModel == ModelObjectsInit /\ [][ModelNext]_vars

-----------------------------------------------------------------------------
(* A ResourceArchive constructed from Blobs and ReadableStreams
   (model.ts:83-102) *)

\* The values of the constructor's map: a Blob, or a ReadableStream of no,
\* one, two or three chunks.
BlobValue(bytes) == [type |-> "Blob", bytes |-> bytes]

StreamValue(chunks) == [type |-> "ReadableStream", chunks |-> chunks]

Values ==
    {BlobValue(<<1, 0, 2>>),
     StreamValue(<<>>),
     StreamValue(<<<<1>>>>),
     StreamValue(<<<<1>>, <<2>>>>),
     StreamValue(<<<<1, 2>>, <<>>, <<3>>>>),
     StreamValue(<<<<1>>, <<1>>>>)}

\* new ResourceArchive(source) (model.ts:83-102): a Blob becomes the
\* producer `async () => value`, a stream `() => readAllFromStream(value)`.
ResourceArchiveFrom(entries) ==
    [k \in 1..Len(entries) |->
        [name |-> entries[k].name,
         producer |-> IF entries[k].value.type = "Blob"
                      THEN BlobProducer(entries[k].value.bytes)
                      ELSE StreamProducer(entries[k].value.chunks)]]

ConstructedArchives ==
    {PractisoArchive(<<>>, Date(Num(7)), ResourceArchiveFrom(entries)) :
        entries \in {e \in UNION {[1..n -> [name : PutNames, value : Values]] :
                                     n \in 1..MaxResources} : Injective(e)}}

StreamsInit ==
    /\ archive \in ConstructedArchives
    /\ invoked = <<>>
    /\ iter = NoPass
    /\ calls = <<>>
    /\ composer = Idle
    /\ source = Idle
    /\ SinkInit
    /\ ParserInit
    /\ xmlDoc = Idle
    /\ mapped = NoResult
    /\ res = Idle
    /\ result = NoResult

StreamsNext == GetCall

\* Entries given to the constructor, resolved with get.
SpecStreams == StreamsInit /\ [][StreamsNext]_vars

-----------------------------------------------------------------------------
(* parseResources on any buffer (index.ts:248-266) *)

\* Bound: the length of the buffer.
MaxBufferLen == 5

\* The bytes of the buffers: the NUL, 'r', and 0xFA, with which a length
\* prefix is negative.
BufferBytes == {0, 114, 250}

Buffers == UNION {[1..n -> BufferBytes] : n \in 0..MaxBufferLen}

\* parseResources(new Blob(resourceParts)) is entered.
ResourcesInit ==
    /\ res \in {ResourcesFrame(buffer) : buffer \in Buffers}
    /\ archive = Idle
    /\ composer = Idle
    /\ source = Idle
    /\ SinkInit
    /\ ParserInit
    /\ xmlDoc = Idle
    /\ mapped = NoResult
    /\ result = NoResult
    /\ ModelInit

ResourcesNext == ParseResourcesStep

\* The loop goes on as long as it can: the function runs on one thread
\* with nothing to wait for but its own first await.
SpecResources ==
    ResourcesInit /\ [][ResourcesNext]_vars /\ WF_vars(ParseResourcesStep)

-----------------------------------------------------------------------------
(* parseStream (part_000:36-77) *)

RECURSIVE ReadDocument(_, _)
\* The first loop of parseStream (part_000:42-60) over the chunks the
\* reader delivers: a chunk without a NUL is decoded and added to
\* xmlContent; at the first chunk with a NUL the loop breaks with `read` set
\* to the slice after the NUL.  Returns xmlContent and the reads left for
\* the second loop.
ReadDocument(chunks, xmlContent) ==
    IF chunks = <<>> THEN [xmlContent |-> xmlContent, reads |-> <<>>]
    ELSE IF IndexOf(Head(chunks), 0, 0) >= 0
    THEN [xmlContent |-> xmlContent,
          reads |-> <<SliceFrom(Head(chunks), IndexOf(Head(chunks), 0, 0) + 1)>>
                        \o Tail(chunks)]
    ELSE ReadDocument(Tail(chunks), xmlContent \o Utf8Decode(Head(chunks)))

\* parseStream(stream): the text handed to parseFromString (part_000:62-63)
\* and the Blob handed to parseResources (part_000:66-71).
ParseStream(chunks) ==
    [document |-> ReadDocument(chunks, <<>>).xmlContent,
     resources |-> Concat(ReadDocument(chunks, <<>>).reads)]

\* The bytes of the streams read: the NUL, 'a', and the two bytes of 'é'.
StreamBytes == {0, 97, 195, 169}

StreamChunks == UNION {[1..n -> StreamBytes] : n \in 0..MaxChunkLen}

\* The chunkings: up to MaxChunks chunks.
Streams == UNION {[1..n -> StreamChunks] : n \in 0..MaxChunks}

\* await parseStream(stream), once.
ParseStreamCall ==
    /\ calls = <<>>
    /\ \E chunks \in Streams :
          calls' = <<Called("parseStream", Null, chunks, ParseStream(chunks),
                            <<>>)>>
    /\ UNCHANGED <<archive, invoked, iter>>
    /\ UNCHANGED <<composer, source, sinkVars, parserVars, mapperVars, res,
                   result>>

StreamNext == ParseStreamCall

SpecStream == ModelObjectsInit /\ [][StreamNext]_vars

-----------------------------------------------------------------------------
(* C1 *)

\* C1: an archive built through the constructors, composed, piped into a
\* fresh Parser and read with result() comes back equal: the same creation
\* time, quizzes, frames, dimensions and resources; result() does not throw.
C1_RoundTrip ==
    /\ result.status # "error"
    /\ result.status = "ok" => result.archive = archive

-----------------------------------------------------------------------------
(* C2 *)

\* The chunks whose write handler has completed.
Handled ==
    SubSeq(written, 1, Len(written) - Len(pending) - Len(inflight))

BeforeFirstNul(bytes) ==
    IF IndexOf(bytes, 0, 0) < 0 THEN bytes
    ELSE SubSeq(bytes, 1, IndexOf(bytes, 0, 0))

AfterFirstNul(bytes) ==
    IF IndexOf(bytes, 0, 0) < 0 THEN <<>>
    ELSE SubSeq(bytes, IndexOf(bytes, 0, 0) + 2, Len(bytes))

\* C2: whatever the chunking, the xml parts concatenate to the input bytes
\* before the first NUL of the whole input, and the resource parts to all
\* bytes after it (later NULs kept); without a NUL everything is xml.
C2_SplitInvariant ==
    /\ Concat(xmlParts) = BeforeFirstNul(Concat(Handled))
    /\ Concat(resourceParts) = AfterFirstNul(Concat(Handled))

\* Three chunks handled, among them an empty one and one that starts with
\* the boundary NUL, with a second NUL kept in the resource bytes.
C2_Witness ==
    /\ Len(written) = 3
    /\ Handled = written
    /\ \E k \in 1..3 : written[k] = <<>>
    /\ \E k \in 1..3 :
          /\ written[k] # <<>>
          /\ written[k][1] = 0
          /\ IndexOf(Concat(SubSeq(written, 1, k - 1)), 0, 0) < 0
    /\ Concat(xmlParts) # <<>>
    /\ IndexOf(Concat(resourceParts), 0, 0) >= 0

-----------------------------------------------------------------------------
(* C3 *)

\* Every chunk Composer.source has enqueued so far, in order.
Emitted == Concat(written) \o Concat(source.queue)

RECURSIVE IsRecords(_, _)
\* bytes holds, for each resource of the table in order, the name's bytes,
\* a NUL, four bytes whose big-endian value is the content's length, and
\* the content; and nothing else.
IsRecords(bytes, table) ==
    IF table = <<>> THEN bytes = <<>>
    ELSE LET name    == Utf8Encode(table[1].name)
             content == table[1].producer.bytes
             n       == Len(name)
             m       == Len(content)
         IN  /\ Len(bytes) >= n + 5 + m
             /\ SubSeq(bytes, 1, n) = name
             /\ bytes[n + 1] = 0
             /\ bytes[n + 2] * 16777216 + bytes[n + 3] * 65536
                    + bytes[n + 4] * 256 + bytes[n + 5] = m
             /\ SubSeq(bytes, n + 6, n + 5 + m) = content
             /\ IsRecords(SubSeq(bytes, n + 6 + m, Len(bytes)), Tail(table))

\* C3: once the source is closed it has emitted the document's UTF-8 text,
\* then nothing when the collection is empty, and otherwise one NUL and the
\* records of the resources in iteration order; it is closed exactly when
\* the last record is written.
C3_ComposerOutput ==
    LET text == Utf8Encode(Render(ArchiveToXml(archive)))
        tail == SubSeq(Emitted, Len(text) + 1, Len(Emitted))
    IN  /\ source.state = "closed" <=> composer.pc = "done"
        /\ source.state = "closed" =>
              /\ StartsWith(Emitted, text)
              /\ IF Len(archive.resources) = 0 THEN tail = <<>>
                 ELSE /\ tail # <<>>
                      /\ Head(tail) = 0
                      /\ IsRecords(Tail(tail), archive.resources)

\* A closed source that has written two records, one with no content and
\* one whose content holds a NUL.
C3_Witness ==
    /\ source.state = "closed"
    /\ Len(archive.resources) = 2
    /\ archive.resources[1].producer.bytes = <<>>
    /\ archive.resources[2].producer.bytes = <<1, 0, 2>>
    /\ archive.resources[2].name = <<233>>

-----------------------------------------------------------------------------
(* C4 *)

\* C4: parseResources on the section Composer wrote returns the table's
\* names in the table's order, each with the table's bytes.
C4_ResourceRoundTrip ==
    /\ res.pc # "thrown"
    /\ res.pc = "returned" => res.value = archive.resources

-----------------------------------------------------------------------------
(* C5 *)

RECURSIVE Truncation(_)
\* Where the framing of a resource section breaks off: in a name without
\* its NUL, in the four length bytes, in the content; "none" for a section
\* of whole records.
Truncation(bytes) ==
    IF bytes = <<>> THEN "none"
    ELSE LET nul == IndexOf(bytes, 0, 0)
             declared == bytes[nul + 2] * 16777216 + bytes[nul + 3] * 65536
                             + bytes[nul + 4] * 256 + bytes[nul + 5]
         IN  IF nul < 0 THEN "name"
             ELSE IF Len(bytes) < nul + 5 THEN "length"
             ELSE IF Len(bytes) < nul + 5 + declared THEN "content"
             ELSE Truncation(SubSeq(bytes, nul + 6 + declared, Len(bytes)))

\* C5: when the last record of the resource section is truncated,
\* parseResources does not return and result() yields no archive.
C5_TruncatedIsFatal ==
    Truncation(Concat(resourceParts)) # "none" =>
        /\ res.pc # "returned"
        /\ result.status # "ok"

-----------------------------------------------------------------------------
(* C6 *)

\* The element children of a node.
ElementsOf(node) == SelectSeq(node.children, IsElement)

\* The quiz elements of a document: the element children of its first
\* element.
QuizElements(doc) ==
    IF ElementsOf(doc) = <<>> THEN <<>> ELSE ElementsOf(ElementsOf(doc)[1])

\* The frame elements of a quiz element: the element children of its
\* frames elements.
FramesOf(quiz) ==
    LET containers == ElementsNamed(quiz.children, "frames")
    IN  IF containers = <<>> THEN <<>> ELSE ElementsOf(containers[1])

\* The errors of a cause chain, the error itself first.
RECURSIVE CauseChain(_)
CauseChain(error) ==
    IF error.cause = Null THEN {error}
    ELSE {error} \cup CauseChain(error.cause[1])

\* C6: when the error result() raises is that of frame f of quiz i, its
\* location is archive, quiz#i, frames, f and then the location of the
\* error parseXmlFrame raised for that frame, and its cause chain holds
\* that error.
C6_FullBreadcrumb ==
    mapped # NoResult =>
        \A i \in 1..Len(QuizElements(xmlDoc)) :
            \A f \in 1..Len(FramesOf(QuizElements(xmlDoc)[i])) :
                LET inner == ParseXmlFrame(FramesOf(QuizElements(xmlDoc)[i])[f])
                    path  == <<Tag("archive"), TagAt("quiz", i - 1),
                               Tag("frames"), ToString(f - 1)>>
                IN  (/\ ~mapped.ok
                     /\ ~inner.ok
                     /\ inner.error.kind = "ArchiveParseError"
                     /\ StartsWith(mapped.error.location, path))
                    => /\ mapped.error.location = path \o inner.error.location
                       /\ inner.error \in CauseChain(mapped.error)

-----------------------------------------------------------------------------
(* C7 *)

\* C7: an archive element whose creation attribute is absent, empty or no
\* timestamp makes parseXmlArchive raise an ArchiveParseError; no archive
\* is returned with an invalid creation time.
C7_RootCreation ==
    mapped # NoResult =>
        /\ mapped.ok => ~mapped.value.creationTime.time.nan
        /\ \A k \in 1..Len(ElementsOf(xmlDoc)) :
              LET creation == Attr(ElementsOf(xmlDoc)[k], "creation")
              IN  (k = 1 /\ (~Truthy(creation) \/ DateParse(creation[1]).nan))
                  => /\ ~mapped.ok
                     /\ mapped.error.kind = "ArchiveParseError"

-----------------------------------------------------------------------------
(* C8 *)

\* The text elements among the frames of the document's quizzes.
TextFrameElements(doc) ==
    UNION {{FramesOf(QuizElements(doc)[i])[f] :
               f \in {g \in 1..Len(FramesOf(QuizElements(doc)[i])) :
                         FramesOf(QuizElements(doc)[i])[g].name = "text"}} :
              i \in 1..Len(QuizElements(doc))}

\* Exactly one child, a text node.
OneTextChild(element) ==
    Len(element.children) = 1 /\ IsText(element.children[1])

\* C8: an archive is returned only when every text frame has exactly one
\* child, a text node; a text frame of any other shape makes the parse
\* raise an ArchiveParseError and no other kind of error.
C8_TextArity ==
    mapped # NoResult =>
        /\ mapped.ok => \A e \in TextFrameElements(xmlDoc) : OneTextChild(e)
        /\ (\E e \in TextFrameElements(xmlDoc) : ~OneTextChild(e))
              => /\ ~mapped.ok
                 /\ mapped.error.kind = "ArchiveParseError"

-----------------------------------------------------------------------------
(* C9 *)

\* The item elements of the options elements among the frames of the
\* document's quizzes.
ItemsOfFrames(doc) ==
    UNION {UNION {{ElementsOf(FramesOf(QuizElements(doc)[i])[f])[k] :
                      k \in 1..Len(ElementsOf(FramesOf(QuizElements(doc)[i])[f]))} :
                     f \in {g \in 1..Len(FramesOf(QuizElements(doc)[i])) :
                               FramesOf(QuizElements(doc)[i])[g].name
                                   = "options"}} :
              i \in 1..Len(QuizElements(doc))}

\* C9: an item with no element child or with more than one makes the parse
\* raise an ArchiveParseError; no archive is returned from a document with
\* such an item.
C9_ItemArity ==
    (/\ mapped # NoResult
     /\ \E item \in ItemsOfFrames(xmlDoc) :
           item.name = "item" /\ Len(ElementsOf(item)) # 1)
    => /\ ~mapped.ok
       /\ mapped.error.kind = "ArchiveParseError"

-----------------------------------------------------------------------------
(* C10 *)

\* White space only.
IsBlank(node) == IsText(node) /\ Trim(node.data) = <<>>

\* The nodes the filtering is to ignore: directives, comments, white space.
Ignored(node) == IsDirective(node) \/ node.type = "comment" \/ IsBlank(node)

\* nodes without the ignored ones.
Kept(nodes) ==
    LET Keep(n) == ~Ignored(n)
    IN  SelectSeq(nodes, Keep)

\* The document without the ignored nodes among its top-level nodes and
\* among the children of its top-level elements.
Stripped(doc) ==
    Document([k \in 1..Len(Kept(doc.children)) |->
        LET node == Kept(doc.children)[k]
        IN  IF IsElement(node)
            THEN Element(node.name, node.attribs, Kept(node.children))
            ELSE node])

\* The top-level nodes of a document and the children of its first
\* element.
FilteredNodes(doc) ==
    {doc.children[k] : k \in 1..Len(doc.children)}
    \cup (IF ElementsOf(doc) = <<>> THEN {}
          ELSE {ElementsOf(doc)[1].children[k] :
                   k \in 1..Len(ElementsOf(doc)[1].children)})

\* C10: a text with other than white space, or any other node that is no
\* element, among the top-level nodes or the archive element's children
\* raises an ArchiveParseError; otherwise the document parses as it does
\* without its comments, directives and white space.
C10_TopLevelFiltering ==
    mapped # NoResult =>
        IF \E n \in FilteredNodes(xmlDoc) : ~IsElement(n) /\ ~Ignored(n)
        THEN ~mapped.ok /\ mapped.error.kind = "ArchiveParseError"
        ELSE ParseXmlArchive(Stripped(xmlDoc)).ok
                 => mapped = ParseXmlArchive(Stripped(xmlDoc))

-----------------------------------------------------------------------------
(* C11 *)

\* The document element is an archive with a creation attribute, and the
\* top-level nodes and its children are elements and white space only.
CleanRoot(doc) ==
    /\ ElementsOf(doc) # <<>>
    /\ ElementsOf(doc)[1].name = "archive"
    /\ Truthy(Attr(ElementsOf(doc)[1], "creation"))
    /\ \A n \in FilteredNodes(doc) : IsElement(n) \/ IsBlank(n)

\* The quiz at position i (from 1) is reached: the root is clean and every
\* quiz before it is mapped without an error.
Reached(doc, i) ==
    /\ CleanRoot(doc)
    /\ i \in 1..Len(QuizElements(doc))
    /\ \A j \in 1..(i - 1) : ParseQuiz(QuizElements(doc)[j], j - 1).ok

\* The frames elements among the children of a quiz element.
Containers(quiz) == ElementsNamed(quiz.children, "frames")

\* The tag a frame of the model is written as.
FrameTag(frame) ==
    CASE frame.type = "Text" -> "text"
      [] frame.type = "Image" -> "image"
      [] frame.type = "Options" -> "options"

\* The message of an error raised for the quiz at position i (from 1).
QuizMessage(message, i) ==
    message \o " at " \o Tag("archive") \o "/" \o TagAt("quiz", i - 1)

\* C11: for a reached quiz with a name and a creation attribute, no frames
\* element raises the missing-container error, two or more raise the
\* duplicate-container error, and with exactly one the quiz returned has
\* one frame for each element child of that frames element, in document
\* order.
C11_FramesContainerCount ==
    mapped # NoResult =>
        \A i \in 1..Len(QuizElements(xmlDoc)) :
            LET quiz == QuizElements(xmlDoc)[i]
            IN  (/\ Reached(xmlDoc, i)
                 /\ Attr(quiz, "name") # Null
                 /\ Truthy(Attr(quiz, "creation")))
                => /\ Len(Containers(quiz)) = 0 =>
                        /\ ~mapped.ok
                        /\ mapped.error.kind = "ArchiveParseError"
                        /\ mapped.error.message
                               = QuizMessage("missing <frames>", i)
                   /\ Len(Containers(quiz)) > 1 =>
                        /\ ~mapped.ok
                        /\ mapped.error.kind = "ArchiveParseError"
                        /\ mapped.error.message
                               = QuizMessage("too many <frames>", i)
                   /\ (Len(Containers(quiz)) = 1 /\ mapped.ok) =>
                        LET frames   == mapped.value.content[i].frames
                            elements == ElementsOf(Containers(quiz)[1])
                        IN  /\ Len(frames) = Len(elements)
                            /\ \A k \in 1..Len(frames) :
                                  FrameTag(frames[k]) = elements[k].name

\* The second quiz of a document has three frames elements, and the
\* duplicate-container error is raised.
C11_Witness ==
    /\ mapped # NoResult
    /\ Len(QuizElements(xmlDoc)) = 2
    /\ Reached(xmlDoc, 2)
    /\ Len(Containers(QuizElements(xmlDoc)[2])) = 3
    /\ ~mapped.ok

-----------------------------------------------------------------------------
(* C12 *)

\* C12: an ArchiveParseError raised while the quiz at position i is
\* processed (the quiz is reached and its mapping throws) has a location
\* that starts with the archive segment and the quiz#i segment.
C12_QuizIndexInLocation ==
    mapped # NoResult =>
        \A i \in 1..Len(QuizElements(xmlDoc)) :
            (/\ Reached(xmlDoc, i)
             /\ ~ParseQuiz(QuizElements(xmlDoc)[i], i - 1).ok
             /\ ~mapped.ok
             /\ mapped.error.kind = "ArchiveParseError")
            => StartsWith(mapped.error.location,
                          <<Tag("archive"), TagAt("quiz", i - 1)>>)

-----------------------------------------------------------------------------
(* C13 *)

\* The tags parseXmlFrame knows.
FrameTags == {"text", "image", "options"}

\* The frame at position f (from 1) of the quiz at position i is reached:
\* the quiz is, it has its attributes, one frames element of elements and
\* white space, dimensions that are mapped, and the frames before f are
\* mapped without an error.
FrameReached(doc, i, f) ==
    /\ Reached(doc, i)
    /\ Attr(QuizElements(doc)[i], "name") # Null
    /\ Truthy(Attr(QuizElements(doc)[i], "creation"))
    /\ Len(Containers(QuizElements(doc)[i])) = 1
    /\ ParseDimensions(ElementsNamed(QuizElements(doc)[i].children,
                                     "dimension"), i - 1, 0).ok
    /\ \A k \in 1..Len(Containers(QuizElements(doc)[i])[1].children) :
          LET n == Containers(QuizElements(doc)[i])[1].children[k]
          IN  IsElement(n) \/ IsBlank(n)
    /\ f \in 1..Len(FramesOf(QuizElements(doc)[i]))
    /\ \A g \in 1..(f - 1) : ParseXmlFrame(FramesOf(QuizElements(doc)[i])[g]).ok

\* The item at position k (from 1) of an options element is reached and
\* well formed: the children are elements and white space, the items
\* before it are mapped, it is an item with a priority around an element.
ItemReached(options, k) ==
    /\ \A j \in 1..Len(options.children) :
          IsElement(options.children[j]) \/ IsBlank(options.children[j])
    /\ k \in 1..Len(ElementsOf(options))
    /\ \A j \in 1..(k - 1) : ParseItem(ElementsOf(options)[j], j - 1).ok
    /\ ElementsOf(options)[k].name = "item"
    /\ ElementsOf(ElementsOf(options)[k]) # <<>>
    /\ Truthy(Attr(ElementsOf(options)[k], "priority"))
    /\ ~ParseInt(Attr(ElementsOf(options)[k], "priority")[1]).nan

\* The message of an error raised for frame f of quiz i (both from 1).
FrameMessage(message, i, f) ==
    message \o " at " \o Tag("archive") \o "/" \o TagAt("quiz", i - 1) \o "/"
        \o Tag("frames") \o "/" \o ToString(f - 1)

\* The message of the unrecognized-frame-type error for a tag.
UnrecognizedMessage(tag) == "unexpected frame type at " \o Tag(tag)

\* C13: an element with an unknown tag at a frame's place, or as the inner
\* element of an item of an options frame, makes the parse raise the
\* unexpected-frame-type ArchiveParseError whose message names the tag; no
\* archive is returned.
C13_UnrecognizedFrameTag ==
    mapped # NoResult =>
        \A i \in 1..Len(QuizElements(xmlDoc)) :
            \A f \in 1..Len(FramesOf(QuizElements(xmlDoc)[i])) :
                LET frame == FramesOf(QuizElements(xmlDoc)[i])[f]
                IN  FrameReached(xmlDoc, i, f) =>
                    /\ frame.name \notin FrameTags =>
                          /\ ~mapped.ok
                          /\ mapped.error.kind = "ArchiveParseError"
                          /\ mapped.error.message
                                 = FrameMessage(UnrecognizedMessage(frame.name),
                                                i, f)
                    /\ frame.name = "options" =>
                          \A k \in 1..Len(ElementsOf(frame)) :
                              LET inner == ElementsOf(ElementsOf(frame)[k])
                              IN  (/\ ItemReached(frame, k)
                                   /\ inner[1].name \notin FrameTags)
                                  => /\ ~mapped.ok
                                     /\ mapped.error.kind = "ArchiveParseError"
                                     /\ mapped.error.message
                                            = FrameMessage(
                                                  UnrecognizedMessage(inner[1].name)
                                                      \o " at " \o Tag("options")
                                                      \o "/" \o TagAt("item", k - 1)
                                                      \o "/" \o Tag(inner[1].name),
                                                  i, f)

\* The second item of the second frame of the second quiz is around a quiz
\* element, and the parse has thrown.
C13_Witness ==
    /\ mapped # NoResult
    /\ ~mapped.ok
    /\ Len(QuizElements(xmlDoc)) = 2
    /\ FrameReached(xmlDoc, 2, 2)
    /\ FramesOf(QuizElements(xmlDoc)[2])[2].name = "options"
    /\ ItemReached(FramesOf(QuizElements(xmlDoc)[2])[2], 2)
    /\ ElementsOf(ElementsOf(FramesOf(QuizElements(xmlDoc)[2])[2])[2])[1].name
           = "quiz"

-----------------------------------------------------------------------------
(* C14 *)

\* The DimensionArchive constructor calls made so far.
Constructions ==
    {k \in 1..Len(calls) : calls[k].call = "DimensionArchive"}

\* An intensity below 0 or above 1, as the comparisons of numbers say.
OutOfBound(intensity) ==
    ~intensity.nan /\ (intensity.value < 0 \/ intensity.value > 10)

\* An intensity in the closed interval [0, 1].
InBound(intensity) ==
    ~intensity.nan /\ 0 <= intensity.value /\ intensity.value <= 10

\* C14: the DimensionArchive constructor throws a RangeError, and makes no
\* object, exactly when the intensity is below 0 or above 1, and every
\* object it makes has an intensity in [0, 1].
C14_DimensionBound ==
    \A k \in Constructions :
        /\ ~calls[k].returned.ok <=> OutOfBound(calls[k].given)
        /\ ~calls[k].returned.ok => calls[k].returned.error.kind = "RangeError"
        /\ calls[k].returned.ok => InBound(calls[k].returned.value.intensity)

-----------------------------------------------------------------------------
(* C15 *)

\* The dimension elements of a quiz element.
DimensionsOf(quiz) == ElementsNamed(quiz.children, "dimension")

\* Dimension j (from 1) of the quiz at position i is reached: the quiz is
\* reached, has a name, a creation and one frames element, and the
\* dimensions before j are mapped without an error.
DimensionReached(doc, i, j) ==
    /\ Reached(doc, i)
    /\ Attr(QuizElements(doc)[i], "name") # Null
    /\ Truthy(Attr(QuizElements(doc)[i], "creation"))
    /\ Len(Containers(QuizElements(doc)[i])) = 1
    /\ j \in 1..Len(DimensionsOf(QuizElements(doc)[i]))
    /\ \A d \in 1..(j - 1) :
          ParseXmlDimension(DimensionsOf(QuizElements(doc)[i])[d]).ok

\* The element has a name and, as its one child, the text of a number
\* below 0 or above 1.
CarriesOutOfRange(dimension) ==
    /\ Truthy(Attr(dimension, "name"))
    /\ Len(dimension.children) = 1
    /\ IsText(dimension.children[1])
    /\ ~ParseFloat(dimension.children[1].data).nan
    /\ \/ ParseFloat(dimension.children[1].data).value < 0
       \/ ParseFloat(dimension.children[1].data).value > 10

\* C15: a reached dimension element j of the quiz at index i whose text is
\* a number outside [0, 1] makes the parse raise an ArchiveParseError, with
\* the constructor's RangeError in its cause chain and the location
\* archive, quiz#i, dimension#j; no archive is returned.
C15_OutOfRangeDimension ==
    mapped # NoResult =>
        \A i \in 1..Len(QuizElements(xmlDoc)) :
            \A j \in 1..Len(DimensionsOf(QuizElements(xmlDoc)[i])) :
                (/\ DimensionReached(xmlDoc, i, j)
                 /\ CarriesOutOfRange(DimensionsOf(QuizElements(xmlDoc)[i])[j]))
                => /\ ~mapped.ok
                   /\ mapped.error.kind = "ArchiveParseError"
                   /\ \E e \in CauseChain(mapped.error) : e.kind = "RangeError"
                   /\ mapped.error.location
                          = <<Tag("archive"), TagAt("quiz", i - 1),
                              TagAt("dimension", j - 1)>>

\* The second dimension of the second quiz has the intensity 1.1, and the
\* parse has thrown.
C15_Witness ==
    /\ mapped # NoResult
    /\ ~mapped.ok
    /\ Len(QuizElements(xmlDoc)) = 2
    /\ DimensionReached(xmlDoc, 2, 2)
    /\ CarriesOutOfRange(DimensionsOf(QuizElements(xmlDoc)[2])[2])
    /\ DimensionsOf(QuizElements(xmlDoc)[2])[2].children[1].data = OverOne

-----------------------------------------------------------------------------
(* C16 *)

\* The last of the first n calls that is this call on this name; 0 when
\* there is none.
LastCall(call, name, n) ==
    LET at == {0} \cup {k \in 1..n : calls[k].call = call /\ calls[k].name = name}
    IN  CHOOSE k \in at : \A other \in at : other <= k

\* The name was put in the first n calls and not removed since.
PresentAfter(name, n) == LastCall("put", name, n) > LastCall("remove", name, n)

\* What the content given to a put settles to.
ContentOf(given) ==
    IF given.form = "bytes" THEN Ok(given.bytes) ELSE given.settles

\* The content of the most recent put of the name in the first n calls.
RecentContent(name, n) == ContentOf(calls[LastCall("put", name, n)].given)

\* C16: after any puts and removes, size is the number of names put and
\* not removed since and keys() are those names; get settles as the
\* content of the most recent put of a present name does and resolves to
\* undefined for an absent one; remove returns the stored producer, or
\* undefined, and invokes nothing.
C16_MapSemantics ==
    /\ ResourceSize(archive.resources)
           = Cardinality({name \in PutNames : PresentAfter(name, Len(calls))})
    /\ {ResourceKeys(archive.resources)[k] :
           k \in 1..Len(ResourceKeys(archive.resources))}
           = {name \in PutNames : PresentAfter(name, Len(calls))}
    /\ Len(ResourceKeys(archive.resources)) = ResourceSize(archive.resources)
    /\ \A k \in 1..Len(calls) :
          /\ calls[k].call = "get" =>
                calls[k].returned
                    = IF ~PresentAfter(calls[k].name, k - 1) THEN Ok(Null)
                      ELSE IF RecentContent(calls[k].name, k - 1).ok
                      THEN Ok(Some(RecentContent(calls[k].name, k - 1).value))
                      ELSE RecentContent(calls[k].name, k - 1)
          /\ calls[k].call = "remove" =>
                /\ calls[k].ran = <<>>
                /\ IF PresentAfter(calls[k].name, k - 1)
                   THEN /\ calls[k].returned # Null
                        /\ Invoke(calls[k].returned[1])
                               = RecentContent(calls[k].name, k - 1)
                   ELSE calls[k].returned = Null

\* A name is put, put again with another content and then got; another
\* name was got before it was put.
C16_Witness ==
    /\ Len(calls) = 3
    /\ calls[1].call = "put"
    /\ calls[2].call = "put"
    /\ calls[2].name = calls[1].name
    /\ calls[2].given # calls[1].given
    /\ calls[3].call = "get"
    /\ calls[3].name = calls[1].name
    /\ calls[3].returned = Ok(Some(<<255>>))
    /\ ResourceSize(archive.resources) = 1

-----------------------------------------------------------------------------
(* C17 *)

\* The first n names of the collection, in its order.
FirstKeys(n) == SubSeq(ResourceKeys(archive.resources), 1, n)

\* The call that inserted a present name: its first put after its last
\* remove.
InsertedAt(name) ==
    LET since == {k \in 1..Len(calls) :
                     /\ calls[k].call = "put"
                     /\ calls[k].name = name
                     /\ k > LastCall("remove", name, Len(calls))}
    IN  CHOOSE k \in since : \A other \in since : k <= other

\* C17: in every pass of the asynchronous iteration the producers invoked
\* so far are those of the first entries of the collection, each once and
\* in the collection's order, the order in which the names were inserted;
\* a producer is invoked only after the entry
\* before it is yielded; and a pass that completes, the second like the
\* first, has invoked the producer of every entry.
C17_InvocationPerPass ==
    /\ [](\A a, b \in 1..Len(archive.resources) :
            a < b => InsertedAt(ResourceKeys(archive.resources)[a])
                         < InsertedAt(ResourceKeys(archive.resources)[b]))
    /\ [](iter.pc \in {"running", "awaiting"} =>
            /\ Len(iter.yielded) = iter.k
            /\ \A k \in 1..iter.k : iter.yielded[k][1] = FirstKeys(iter.k)[k]
            /\ iter.ran = FirstKeys(IF iter.pc = "running" THEN iter.k
                                    ELSE iter.k + 1))
    /\ [][iter.pc # "done" /\ iter'.pc = "done" =>
            /\ iter'.ran = ResourceKeys(archive.resources)
            /\ Len(iter'.yielded) = Len(archive.resources)]_vars

\* A second pass over two entries is complete: both producers are invoked
\* again, after they were in the first pass.
C17_Witness ==
    /\ iter.pc = "done"
    /\ iter.pass = 2
    /\ Len(iter.ran) = 2
    /\ Len(invoked) = 4

-----------------------------------------------------------------------------
(* C18 *)

\* The position of the first resource whose producer rejects; 0 when every
\* producer resolves.
FirstRejecting(table) ==
    LET rejecting == {k \in 1..Len(table) : ~Invoke(table[k].producer).ok}
    IN  IF rejecting = {} THEN 0
        ELSE CHOOSE k \in rejecting : \A other \in rejecting : k <= other

RECURSIVE RecordsOf(_, _)
\* The bytes of the records of the first n resources of a table whose
\* contents are shorter than 256 bytes.
RecordsOf(table, n) ==
    IF n = 0 THEN <<>>
    ELSE RecordsOf(table, n - 1)
             \o Utf8Encode(table[n].name)
             \o <<0, 0, 0, 0, Len(Invoke(table[n].producer).value)>>
             \o Invoke(table[n].producer).value

\* C18: when the producer of resource f is the first to reject, with E,
\* the source is never closed; it is errored, with E itself, from the
\* moment the producer has settled; all it ever emits is a prefix of the
\* document, the NUL and the records of the resources before f; and the
\* producer of f is invoked once and no later producer at all.
C18_FailurePropagation ==
    LET f == FirstRejecting(archive.resources)
    IN  f > 0 =>
           /\ source.state # "closed"
           /\ composer.pc # "done"
           /\ source.state = "errored" <=> composer.pc = "failed"
           /\ source.state = "errored" =>
                 /\ source.error = Invoke(archive.resources[f].producer).error
                 /\ source.queue = <<>>
           /\ StartsWith(Utf8Encode(Render(ArchiveToXml(archive))) \o <<0>>
                             \o RecordsOf(archive.resources, f - 1),
                         Emitted)
           /\ Len(invoked) <= f
           /\ \A k \in 1..Len(invoked) : invoked[k] = archive.resources[k].name

\* The second producer has rejected after the first record was piped into
\* the sink, and the pipe has aborted the sink.
C18_Witness ==
    /\ FirstRejecting(archive.resources) = 2
    /\ source.state = "errored"
    /\ sinkState = "errored"
    /\ Len(invoked) = 2
    /\ Concat(written)
           = Utf8Encode(Render(ArchiveToXml(archive))) \o <<0>>
                 \o RecordsOf(archive.resources, 1)

-----------------------------------------------------------------------------
(* C19 *)

\* The parser after a handler that began in the state `before` has filed
\* the chunk.
FiledNext(before, chunk) ==
    SinkWrite(before.readHead, before.xmlParts, before.resourceParts, chunk)

RECURSIVE Filed(_)
\* The parser after the handlers of these chunks have run one after
\* another, each to its end, in this order.
Filed(chunks) ==
    IF chunks = <<>>
    THEN [readHead |-> "xml", xmlParts |-> <<>>, resourceParts |-> <<>>]
    ELSE FiledNext(Filed(SubSeq(chunks, 1, Len(chunks) - 1)),
                   chunks[Len(chunks)])

-----------------------------------------------------------------------------
(* C20 *)

\* C20: result() returns an archive only for the complete input: never
\* when a producer rejects and the pipe is aborted, and otherwise one that
\* holds every resource of the archive composed, with its bytes.
C20_NoPartialResult ==
    result.status = "ok" =>
        /\ FirstRejecting(archive.resources) = 0
        /\ Len(result.archive.resources) = Len(archive.resources)
        /\ \A k \in 1..Len(archive.resources) :
              /\ result.archive.resources[k].name = archive.resources[k].name
              /\ Invoke(result.archive.resources[k].producer)
                     = Invoke(archive.resources[k].producer)

-----------------------------------------------------------------------------
(* C21 *)

\* A write handler ends in this step: the chunk under way is filed.
HandlerEnds == inflight # <<>> /\ inflight' = <<>>

\* C21: the read head is xml until a chunk is handled; a handler moves it
\* from xml to resource exactly when its chunk holds a NUL; it is never
\* moved back; and in the resource state a handler leaves the xml parts
\* alone and appends its whole chunk, NULs included, to the resource parts.
C21_ReadHeadPermanence ==
    /\ [](Handled = <<>> => readHead = "xml")
    /\ [][/\ readHead = "resource" => readHead' = "resource"
          /\ readHead' # readHead => HandlerEnds
          /\ (HandlerEnds /\ readHead = "xml")
                => (readHead' = "resource" <=> IndexOf(inflight[1], 0, 0) >= 0)
          /\ (HandlerEnds /\ readHead = "resource")
                => /\ xmlParts' = xmlParts
                   /\ resourceParts' = Append(resourceParts, inflight[1])]_vars

\* After the chunk that moved the read head, a chunk holding a NUL is
\* handled: it is the last resource part, whole.
C21_Witness ==
    /\ Len(Handled) = 3
    /\ IndexOf(Handled[2], 0, 0) >= 0
    /\ IndexOf(Handled[3], 0, 0) >= 0
    /\ Len(Handled[3]) = 2
    /\ readHead = "resource"
    /\ resourceParts[Len(resourceParts)] = Handled[3]
    /\ Len(xmlParts) = 2

-----------------------------------------------------------------------------
(* C22 *)

\* C22: for every chunking, the text parseStream parses is the text of the
\* input bytes before the first NUL, the bytes before the NUL in the
\* boundary chunk included, and the resource buffer is every byte after
\* that NUL.
C22_BoundaryChunk ==
    \A k \in 1..Len(calls) :
        calls[k].call = "parseStream" =>
            /\ calls[k].returned.document
                   = Utf8Decode(BeforeFirstNul(Concat(calls[k].given)))
            /\ calls[k].returned.resources
                   = AfterFirstNul(Concat(calls[k].given))

-----------------------------------------------------------------------------
(* C23 *)

\* C23: on every finite buffer parseResources comes to an end: it returns
\* a collection or throws.
C23_DecoderTerminates == <>(res.pc \in {"returned", "thrown"})

-----------------------------------------------------------------------------
(* C24 *)

\* The call is the first get of its name.
FirstGet(k) ==
    /\ calls[k].call = "get"
    /\ \A j \in 1..(k - 1) : calls[j].name # calls[k].name

\* C24: the first resolution of an entry the constructor was given as a
\* ReadableStream yields the stream's chunks joined in the order the
\* stream delivers them.
C24_StreamOrder ==
    \A k \in 1..Len(calls) :
        (/\ FirstGet(k)
         /\ SourceHas(archive.resources, calls[k].name)
         /\ SourceGet(archive.resources, calls[k].name).kind = "stream")
        => calls[k].returned
               = Ok(Some(Concat(SourceGet(archive.resources,
                                          calls[k].name).chunks)))

-----------------------------------------------------------------------------
(* C25 *)

\* C25: a second get of a name the collection holds succeeds, and returns
\* the bytes the first get returned.
C25_RepeatableResolution ==
    \A j, k \in 1..Len(calls) :
        (/\ j < k
         /\ calls[j].call = "get"
         /\ calls[k].call = "get"
         /\ calls[j].name = calls[k].name
         /\ SourceHas(archive.resources, calls[k].name))
        => /\ calls[j].returned.ok
           /\ calls[k].returned.ok
           /\ calls[k].returned = calls[j].returned

=============================================================================
